---- MODULE Spec2Model ----
(***************************************************************************)
(* Model of the binary search tree engine of bst-visualizer                *)
(* (src/src/utils/bst.js), and further down of the animation frame         *)
(* generators and the playback controller of its App component             *)
(* (src/src/App.tsx).                                                      *)
(*                                                                         *)
(* The node graph is an arena: heap maps node identities to the fields of  *)
(* a BSTNode (value, left, right); root is a node identity or Null.  The   *)
(* x / y fields of BSTNode are written by getNodesForVisualization only    *)
(* and read by no tree operation; they are not part of this model.         *)
(* Every public method of class BST is a pure operator from (root, heap)   *)
(* and its argument to the new (root, heap) and the returned record, and   *)
(* one action of the state machine applies it to the live tree.            *)
(*                                                                         *)
(* Ahead of some operators stands a faulty variant of the same code (named *)
(* after its fault); the properties below are checked to tell the two      *)
(* apart.  No action uses a faulty variant.                                *)
(***************************************************************************)
EXTENDS Integers, Sequences, FiniteSets, TLC

VARIABLES root, heap, op, arg, res, rootBefore, heapBefore, keys

(* The playback state of the App component (src/src/App.tsx): the frame  *)
(* list being played, the position in it, the two switches, and the five *)
(* fields the canvas displays.                                           *)
VARIABLES traversalFrames, currentStep, isPlaying, isTraversalActive,
          highlightedNode, pointerPosition, visitedNodes, pathNodes,
          animatedEdges

(* The pending playback timer with the currentStep and traversalFrames its *)
(* callback closed over (None: no timer pending), and the Skip to End loop *)
(* of TraversalControls (src/src/components/InfoPanel.tsx) with the props  *)
(* its click handler closed over and the number of onStepForward calls it  *)
(* has made (None: no such loop is running).                               *)
VARIABLES playbackTimerRef, skipToEnd

player == <<traversalFrames, currentStep, isPlaying, isTraversalActive,
            highlightedNode, pointerPosition, visitedNodes, pathNodes,
            animatedEdges, playbackTimerRef, skipToEnd>>

vars == <<root, heap, op, arg, res, rootBefore, heapBefore, keys, player>>

(* Bounds of the model: values are drawn from 1..MaxVal, and insert is     *)
(* offered only while fewer than MaxNodes nodes are allocated.             *)
MaxVal == 5
MaxNodes == 5

Values == 1..MaxVal

(* null *)
Null == 0

(* A value that may be null or undefined, and one that is there. *)
None == <<>>

Some(v) == <<v>>

(* An empty arena. *)
EmptyHeap == [n \in {} |-> [value |-> 0, left |-> Null, right |-> Null]]

(* new BSTNode(value): the fields of a fresh node. *)
BSTNode(value) == [value |-> value, left |-> Null, right |-> Null]

(* The identity `new` returns: one that no live node has. *)
NewNode(h) ==
    CHOOSE n \in 1..(Cardinality(DOMAIN h) + 1) :
        /\ n \notin DOMAIN h
        /\ \A m \in 1..(n - 1) : m \in DOMAIN h

(* The nodes reachable from node n by left / right links. *)
RECURSIVE Nodes(_, _)
Nodes(h, n) ==
    IF n = Null THEN {}
    ELSE {n} \cup Nodes(h, h[n].left) \cup Nodes(h, h[n].right)

(* The nodes of the subtree at n, in root-left-right order. *)
RECURSIVE NodeSeq(_, _)
NodeSeq(h, n) ==
    IF n = Null THEN <<>>
    ELSE <<n>> \o NodeSeq(h, h[n].left) \o NodeSeq(h, h[n].right)

(* Object identity is opaque: a method compares node references only with  *)
(* references it obtained in the same call, and a node that is no longer   *)
(* reachable from root is garbage.  Live(r, h) is the tree as the next     *)
(* call finds it: the reachable nodes, named 1..k in root-left-right order.*)
Live(r, h) ==
    LET seq == NodeSeq(h, r)
        ren(n) == IF n = Null THEN Null
                  ELSE CHOOSE i \in 1..Len(seq) : seq[i] = n
    IN  [root |-> ren(r),
         heap |-> [i \in 1..Len(seq) |->
                     [value |-> h[seq[i]].value,
                      left  |-> ren(h[seq[i]].left),
                      right |-> ren(h[seq[i]].right)]]]

(***************************************************************************)
(* insert                                                                  *)
(***************************************************************************)
(* insertLoop whose go-right branch assigns current.left. *)
RECURSIVE insertLoopAttachLeft(_, _, _, _, _)
insertLoopAttachLeft(r, h, current, value, path) ==
    LET path1 == Append(path, h[current].value) IN
    IF value = h[current].value
    THEN [root |-> r, heap |-> h, success |-> FALSE, path |-> path1,
          message |-> <<"Duplicate value", value, "not allowed">>]
    ELSE IF value < h[current].value
    THEN IF h[current].left = Null
         THEN LET n == NewNode(h) IN
              [root |-> r,
               heap |-> (n :> BSTNode(value)) @@ [h EXCEPT ![current].left = n],
               success |-> TRUE, path |-> Append(path1, value),
               message |-> <<"Inserted", value>>]
         ELSE insertLoopAttachLeft(r, h, h[current].left, value, path1)
    ELSE IF h[current].right = Null
         THEN LET n == NewNode(h) IN
              [root |-> r,
               heap |-> (n :> BSTNode(value)) @@ [h EXCEPT ![current].left = n],
               success |-> TRUE, path |-> Append(path1, value),
               message |-> <<"Inserted", value>>]
         ELSE insertLoopAttachLeft(r, h, h[current].right, value, path1)

(* insertLoop with the duplicate test ahead of path.push(current.value). *)
RECURSIVE insertLoopTestFirst(_, _, _, _, _)
insertLoopTestFirst(r, h, current, value, path) ==
    LET path1 == Append(path, h[current].value) IN
    IF value = h[current].value
    THEN [root |-> r, heap |-> h, success |-> FALSE, path |-> path,
          message |-> <<"Duplicate value", value, "not allowed">>]
    ELSE IF value < h[current].value
    THEN IF h[current].left = Null
         THEN LET n == NewNode(h) IN
              [root |-> r,
               heap |-> (n :> BSTNode(value)) @@ [h EXCEPT ![current].left = n],
               success |-> TRUE, path |-> Append(path1, value),
               message |-> <<"Inserted", value>>]
         ELSE insertLoopTestFirst(r, h, h[current].left, value, path1)
    ELSE IF h[current].right = Null
         THEN LET n == NewNode(h) IN
              [root |-> r,
               heap |-> (n :> BSTNode(value)) @@ [h EXCEPT ![current].right = n],
               success |-> TRUE, path |-> Append(path1, value),
               message |-> <<"Inserted", value>>]
         ELSE insertLoopTestFirst(r, h, h[current].right, value, path1)

(* The while (true) loop of insert, entered with `current` and `path`. *)
RECURSIVE insertLoop(_, _, _, _, _)
insertLoop(r, h, current, value, path) ==
    LET path1 == Append(path, h[current].value) IN
    IF value = h[current].value
    THEN [root |-> r, heap |-> h, success |-> FALSE, path |-> path1,
          message |-> <<"Duplicate value", value, "not allowed">>]
    ELSE IF value < h[current].value
    THEN IF h[current].left = Null
         THEN LET n == NewNode(h) IN
              [root |-> r,
               heap |-> (n :> BSTNode(value)) @@ [h EXCEPT ![current].left = n],
               success |-> TRUE, path |-> Append(path1, value),
               message |-> <<"Inserted", value>>]
         ELSE insertLoop(r, h, h[current].left, value, path1)
    ELSE IF h[current].right = Null
         THEN LET n == NewNode(h) IN
              [root |-> r,
               heap |-> (n :> BSTNode(value)) @@ [h EXCEPT ![current].right = n],
               success |-> TRUE, path |-> Append(path1, value),
               message |-> <<"Inserted", value>>]
         ELSE insertLoop(r, h, h[current].right, value, path1)

insert(r, h, value) ==
    IF r = Null
    THEN LET n == NewNode(h) IN
         [root |-> n, heap |-> (n :> BSTNode(value)) @@ h,
          success |-> TRUE, path |-> <<value>>,
          message |-> <<"Inserted", value, "as root">>]
    ELSE insertLoop(r, h, r, value, <<>>)

(***************************************************************************)
(* search                                                                  *)
(***************************************************************************)
(* searchLoop with the comparison going right when value < current.value. *)
RECURSIVE searchLoopWrongSide(_, _, _, _)
searchLoopWrongSide(h, current, value, path) ==
    IF current # Null
    THEN LET path1 == Append(path, h[current].value) IN
         IF value = h[current].value
         THEN [found |-> TRUE, path |-> path1, message |-> <<"Found", value>>]
         ELSE IF value < h[current].value
         THEN searchLoopWrongSide(h, h[current].right, value, path1)
         ELSE searchLoopWrongSide(h, h[current].left, value, path1)
    ELSE [found |-> FALSE, path |-> path,
          message |-> <<"Value", value, "not found">>]

RECURSIVE searchLoop(_, _, _, _)
searchLoop(h, current, value, path) ==
    IF current # Null
    THEN LET path1 == Append(path, h[current].value) IN
         IF value = h[current].value
         THEN [found |-> TRUE, path |-> path1, message |-> <<"Found", value>>]
         ELSE IF value < h[current].value
         THEN searchLoop(h, h[current].left, value, path1)
         ELSE searchLoop(h, h[current].right, value, path1)
    ELSE [found |-> FALSE, path |-> path,
          message |-> <<"Value", value, "not found">>]

search(r, h, value) ==
    [root |-> r, heap |-> h] @@ searchLoop(h, r, value, <<>>)

(***************************************************************************)
(* remove                                                                  *)
(***************************************************************************)
(* removeFind with path.push(current.value) inside the go-left branch. *)
RECURSIVE removeFindPushLeftOnly(_, _, _, _, _, _)
removeFindPushLeftOnly(h, parent, current, isLeftChild, value, path) ==
    IF current # Null /\ h[current].value # value
    THEN IF value < h[current].value
         THEN removeFindPushLeftOnly(h, current, h[current].left, TRUE, value,
                                     Append(path, h[current].value))
         ELSE removeFindPushLeftOnly(h, current, h[current].right, FALSE,
                                     value, path)
    ELSE [parent |-> parent, current |-> current,
          isLeftChild |-> isLeftChild, path |-> path]

(* The loop that finds the node to remove, tracking parent and side. *)
RECURSIVE removeFind(_, _, _, _, _, _)
removeFind(h, parent, current, isLeftChild, value, path) ==
    IF current # Null /\ h[current].value # value
    THEN IF value < h[current].value
         THEN removeFind(h, current, h[current].left, TRUE, value,
                         Append(path, h[current].value))
         ELSE removeFind(h, current, h[current].right, FALSE, value,
                         Append(path, h[current].value))
    ELSE [parent |-> parent, current |-> current,
          isLeftChild |-> isLeftChild, path |-> path]

(* successorLoop descending by right links. *)
RECURSIVE successorLoopRight(_, _, _, _)
successorLoopRight(h, successorParent, successor, path) ==
    IF h[successor].right # Null
    THEN successorLoopRight(h, successor, h[successor].right,
                            Append(path, h[successor].value))
    ELSE [successorParent |-> successorParent, successor |-> successor,
          path |-> Append(path, h[successor].value)]

(* successorLoop that does not descend: the right child is the successor. *)
successorLoopNoDescent(h, successorParent, successor, path) ==
    [successorParent |-> successorParent, successor |-> successor,
     path |-> Append(path, h[successor].value)]

(* The loop that finds the in-order successor (smallest in right subtree). *)
RECURSIVE successorLoop(_, _, _, _)
successorLoop(h, successorParent, successor, path) ==
    IF h[successor].left # Null
    THEN successorLoop(h, successor, h[successor].left,
                       Append(path, h[successor].value))
    ELSE [successorParent |-> successorParent, successor |-> successor,
          path |-> Append(path, h[successor].value)]

(* removeRelink without the isLeftChild test: always parent.left. *)
removeRelinkLeftOnly(r, h, f, child) ==
    IF f.current = r
    THEN [root |-> child, heap |-> h]
    ELSE [root |-> r, heap |-> [h EXCEPT ![f.parent].left = child]]

(* removeRelink without the isLeftChild test: always parent.right. *)
removeRelinkRightOnly(r, h, f, child) ==
    IF f.current = r
    THEN [root |-> child, heap |-> h]
    ELSE [root |-> r, heap |-> [h EXCEPT ![f.parent].right = child]]

(* `slot = child`, where slot is this.root, parent.left or parent.right. *)
removeRelink(r, h, f, child) ==
    IF f.current = r
    THEN [root |-> child, heap |-> h]
    ELSE IF f.isLeftChild
    THEN [root |-> r, heap |-> [h EXCEPT ![f.parent].left = child]]
    ELSE [root |-> r, heap |-> [h EXCEPT ![f.parent].right = child]]

(* removeTwoChildren that copies the successor's value and stops there. *)
removeTwoChildrenNoExcise(r, h, f, value) ==
    LET current == f.current
        s == successorLoop(h, current, h[current].right, f.path)
        h1 == [h EXCEPT ![current].value = h[s.successor].value]
    IN  [root |-> r, heap |-> h1, success |-> TRUE, path |-> s.path,
         message |-> <<"Removed", value, "(two children, replaced with",
                       h[s.successor].value, ")">>]

(* removeTwoChildren with the successor always unlinked from its parent's *)
(* left slot (the case successorParent === current forgotten).            *)
removeTwoChildrenLeftOnly(r, h, f, value) ==
    LET current == f.current
        s == successorLoop(h, current, h[current].right, f.path)
        h1 == [h EXCEPT ![current].value = h[s.successor].value]
        h2 == [h1 EXCEPT ![s.successorParent].left = h1[s.successor].right]
    IN  [root |-> r, heap |-> h2, success |-> TRUE, path |-> s.path,
         message |-> <<"Removed", value, "(two children, replaced with",
                       h[s.successor].value, ")">>]

(* Case 3 of remove: node with two children. *)
removeTwoChildren(r, h, f, value) ==
    LET current == f.current
        s == successorLoop(h, current, h[current].right, f.path)
        h1 == [h EXCEPT ![current].value = h[s.successor].value]
        h2 == IF s.successorParent = current
              THEN [h1 EXCEPT ![s.successorParent].right = h1[s.successor].right]
              ELSE [h1 EXCEPT ![s.successorParent].left = h1[s.successor].right]
    IN  [root |-> r, heap |-> h2, success |-> TRUE, path |-> s.path,
         message |-> <<"Removed", value, "(two children, replaced with",
                       h[s.successor].value, ")">>]

(* remove splicing current.left in, whichever child there is. *)
removeSplicesLeft(r, h, value) ==
    LET f0 == removeFind(h, Null, r, FALSE, value, <<>>) IN
    IF f0.current = Null
    THEN [root |-> r, heap |-> h, success |-> FALSE, path |-> f0.path,
          message |-> <<"Value", value, "not found">>]
    ELSE
    LET current == f0.current
        f == [f0 EXCEPT !.path = Append(f0.path, h[current].value)]
    IN  IF h[current].left = Null /\ h[current].right = Null
        THEN removeRelink(r, h, f, Null) @@
             [success |-> TRUE, path |-> f.path,
              message |-> <<"Removed leaf node", value>>]
        ELSE IF h[current].left = Null \/ h[current].right = Null
        THEN LET child == h[current].left
             IN  removeRelink(r, h, f, child) @@
                 [success |-> TRUE, path |-> f.path,
                  message |-> <<"Removed", value, "(one child)">>]
        ELSE removeTwoChildren(r, h, f, value)

(* remove pushing the value of the spliced child onto the path. *)
removeAppendsChild(r, h, value) ==
    LET f0 == removeFind(h, Null, r, FALSE, value, <<>>) IN
    IF f0.current = Null
    THEN [root |-> r, heap |-> h, success |-> FALSE, path |-> f0.path,
          message |-> <<"Value", value, "not found">>]
    ELSE
    LET current == f0.current
        f == [f0 EXCEPT !.path = Append(f0.path, h[current].value)]
    IN  IF h[current].left = Null /\ h[current].right = Null
        THEN removeRelink(r, h, f, Null) @@
             [success |-> TRUE, path |-> f.path,
              message |-> <<"Removed leaf node", value>>]
        ELSE IF h[current].left = Null \/ h[current].right = Null
        THEN LET child == IF h[current].left # Null
                          THEN h[current].left ELSE h[current].right
             IN  removeRelink(r, h, f, child) @@
                 [success |-> TRUE, path |-> Append(f.path, h[child].value),
                  message |-> <<"Removed", value, "(one child)">>]
        ELSE removeTwoChildren(r, h, f, value)

remove(r, h, value) ==
    LET f0 == removeFind(h, Null, r, FALSE, value, <<>>) IN
    IF f0.current = Null
    THEN [root |-> r, heap |-> h, success |-> FALSE, path |-> f0.path,
          message |-> <<"Value", value, "not found">>]
    ELSE
    LET current == f0.current
        f == [f0 EXCEPT !.path = Append(f0.path, h[current].value)]
    IN  IF h[current].left = Null /\ h[current].right = Null
        THEN removeRelink(r, h, f, Null) @@
             [success |-> TRUE, path |-> f.path,
              message |-> <<"Removed leaf node", value>>]
        ELSE IF h[current].left = Null \/ h[current].right = Null
        THEN LET child == IF h[current].left # Null
                          THEN h[current].left ELSE h[current].right
             IN  removeRelink(r, h, f, child) @@
                 [success |-> TRUE, path |-> f.path,
                  message |-> <<"Removed", value, "(one child)">>]
        ELSE removeTwoChildren(r, h, f, value)

(***************************************************************************)
(* findMin / findMax / getHeight / clear                                   *)
(***************************************************************************)
RECURSIVE findMinLoop(_, _, _)
findMinLoop(h, current, path) ==
    IF h[current].left # Null
    THEN findMinLoop(h, h[current].left, Append(path, h[current].value))
    ELSE [value |-> h[current].value, path |-> Append(path, h[current].value),
          message |-> <<"Minimum value is", h[current].value>>]

(* findMin without the early return for the empty tree. *)
findMinNoEarlyReturn(r, h) ==
    [root |-> r, heap |-> h] @@
    (IF r = Null
     THEN [value |-> Null, path |-> <<>>,
           message |-> <<"Minimum value is", Null>>]
     ELSE findMinLoop(h, r, <<>>))

findMin(r, h) ==
    [root |-> r, heap |-> h] @@
    (IF r = Null
     THEN [value |-> Null, path |-> <<>>, message |-> <<"Tree is empty">>]
     ELSE findMinLoop(h, r, <<>>))

(* findMaxLoop following left links, as findMin does. *)
RECURSIVE findMaxLoopLeft(_, _, _)
findMaxLoopLeft(h, current, path) ==
    IF h[current].left # Null
    THEN findMaxLoopLeft(h, h[current].left, Append(path, h[current].value))
    ELSE [value |-> h[current].value, path |-> Append(path, h[current].value),
          message |-> <<"Maximum value is", h[current].value>>]

RECURSIVE findMaxLoop(_, _, _)
findMaxLoop(h, current, path) ==
    IF h[current].right # Null
    THEN findMaxLoop(h, h[current].right, Append(path, h[current].value))
    ELSE [value |-> h[current].value, path |-> Append(path, h[current].value),
          message |-> <<"Maximum value is", h[current].value>>]

findMax(r, h) ==
    [root |-> r, heap |-> h] @@
    (IF r = Null
     THEN [value |-> Null, path |-> <<>>, message |-> <<"Tree is empty">>]
     ELSE findMaxLoop(h, r, <<>>))

(* calculateHeight counting nodes: 0 for null. *)
RECURSIVE calculateHeightFromZero(_, _)
calculateHeightFromZero(h, node) ==
    IF node = Null THEN 0
    ELSE LET leftHeight == calculateHeightFromZero(h, h[node].left)
             rightHeight == calculateHeightFromZero(h, h[node].right)
         IN  (IF leftHeight >= rightHeight THEN leftHeight ELSE rightHeight) + 1

RECURSIVE calculateHeight(_, _)
calculateHeight(h, node) ==
    IF node = Null THEN -1
    ELSE LET leftHeight == calculateHeight(h, h[node].left)
             rightHeight == calculateHeight(h, h[node].right)
         IN  (IF leftHeight >= rightHeight THEN leftHeight ELSE rightHeight) + 1

getHeight(r, h) == [root |-> r, heap |-> h, height |-> calculateHeight(h, r)]

(* clear that detaches the subtrees of the root and keeps the root. *)
clearKeepsRoot(r, h) ==
    [root |-> r,
     heap |-> IF r = Null THEN h ELSE [h EXCEPT ![r].left = Null, ![r].right = Null],
     success |-> TRUE, message |-> <<"Tree cleared">>]

clear(r, h) ==
    [root |-> Null, heap |-> h, success |-> TRUE, message |-> <<"Tree cleared">>]

(***************************************************************************)
(* Traversals.  Each `traverse` closure pushes onto the arrays of its      *)
(* enclosing call; here the arrays are threaded through the recursion.     *)
(***************************************************************************)
(* `${values.join(' -> ') || 'Empty tree'}` behind the traversal's name. *)
traversalMessage(name, values) ==
    IF values = <<>> THEN <<name, "Empty tree">> ELSE <<name>> \o values

(* inorderTraverse pushing the node's value before the left recursion. *)
RECURSIVE inorderTraverseRootFirst(_, _, _)
inorderTraverseRootFirst(h, node, values) ==
    IF node # Null
    THEN LET v1 == Append(values, h[node].value)
             v2 == inorderTraverseRootFirst(h, h[node].left, v1)
         IN  inorderTraverseRootFirst(h, h[node].right, v2)
    ELSE values

RECURSIVE inorderTraverse(_, _, _)
inorderTraverse(h, node, values) ==
    IF node # Null
    THEN LET v1 == inorderTraverse(h, h[node].left, values)
             v2 == Append(v1, h[node].value)
         IN  inorderTraverse(h, h[node].right, v2)
    ELSE values

inorder(r, h) ==
    LET values == inorderTraverse(h, r, <<>>) IN
    [root |-> r, heap |-> h, values |-> values,
     message |-> traversalMessage("Inorder:", values)]

RECURSIVE preorderTraverse(_, _, _)
preorderTraverse(h, node, values) ==
    IF node # Null
    THEN LET v1 == Append(values, h[node].value)
             v2 == preorderTraverse(h, h[node].left, v1)
         IN  preorderTraverse(h, h[node].right, v2)
    ELSE values

preorder(r, h) ==
    LET values == preorderTraverse(h, r, <<>>) IN
    [root |-> r, heap |-> h, values |-> values,
     message |-> traversalMessage("Preorder:", values)]

(* postorderTraverse recursing into the right subtree first. *)
RECURSIVE postorderTraverseRightFirst(_, _, _)
postorderTraverseRightFirst(h, node, values) ==
    IF node # Null
    THEN LET v1 == postorderTraverseRightFirst(h, h[node].right, values)
             v2 == postorderTraverseRightFirst(h, h[node].left, v1)
         IN  Append(v2, h[node].value)
    ELSE values

RECURSIVE postorderTraverse(_, _, _)
postorderTraverse(h, node, values) ==
    IF node # Null
    THEN LET v1 == postorderTraverse(h, h[node].left, values)
             v2 == postorderTraverse(h, h[node].right, v1)
         IN  Append(v2, h[node].value)
    ELSE values

postorder(r, h) ==
    LET values == postorderTraverse(h, r, <<>>) IN
    [root |-> r, heap |-> h, values |-> values,
     message |-> traversalMessage("Postorder:", values)]

(* steps.push({ value: node.value, action }) *)
pushStep(acc, value, action) ==
    [acc EXCEPT !.steps = Append(@, [value |-> value, action |-> action])]

(* values.push(node.value) *)
pushValue(acc, value) == [acc EXCEPT !.values = Append(@, value)]

(* inorderDetailedTraverse with the visit ahead of the left recursion. *)
RECURSIVE inorderDetailedTraverseVisitFirst(_, _, _)
inorderDetailedTraverseVisitFirst(h, node, acc) ==
    IF node # Null
    THEN LET a1 == pushStep(acc, h[node].value, "enter")
             a2 == pushValue(pushStep(a1, h[node].value, "visit"), h[node].value)
             a3 == inorderDetailedTraverseVisitFirst(h, h[node].left, a2)
             a4 == inorderDetailedTraverseVisitFirst(h, h[node].right, a3)
         IN  pushStep(a4, h[node].value, "exit")
    ELSE acc

RECURSIVE inorderDetailedTraverse(_, _, _)
inorderDetailedTraverse(h, node, acc) ==
    IF node # Null
    THEN LET a1 == pushStep(acc, h[node].value, "enter")
             a2 == inorderDetailedTraverse(h, h[node].left, a1)
             a3 == pushValue(pushStep(a2, h[node].value, "visit"), h[node].value)
             a4 == inorderDetailedTraverse(h, h[node].right, a3)
         IN  pushStep(a4, h[node].value, "exit")
    ELSE acc

inorderDetailed(r, h) ==
    LET a == inorderDetailedTraverse(h, r, [steps |-> <<>>, values |-> <<>>]) IN
    [root |-> r, heap |-> h, steps |-> a.steps, values |-> a.values,
     message |-> traversalMessage("Inorder:", a.values)]

RECURSIVE preorderDetailedTraverse(_, _, _)
preorderDetailedTraverse(h, node, acc) ==
    IF node # Null
    THEN LET a1 == pushStep(acc, h[node].value, "enter")
             a2 == pushValue(pushStep(a1, h[node].value, "visit"), h[node].value)
             a3 == preorderDetailedTraverse(h, h[node].left, a2)
             a4 == preorderDetailedTraverse(h, h[node].right, a3)
         IN  pushStep(a4, h[node].value, "exit")
    ELSE acc

preorderDetailed(r, h) ==
    LET a == preorderDetailedTraverse(h, r, [steps |-> <<>>, values |-> <<>>]) IN
    [root |-> r, heap |-> h, steps |-> a.steps, values |-> a.values,
     message |-> traversalMessage("Preorder:", a.values)]

(* postorderDetailedTraverse that returns after the visit, with no exit. *)
RECURSIVE postorderDetailedTraverseNoExit(_, _, _)
postorderDetailedTraverseNoExit(h, node, acc) ==
    IF node # Null
    THEN LET a1 == pushStep(acc, h[node].value, "enter")
             a2 == postorderDetailedTraverseNoExit(h, h[node].left, a1)
             a3 == postorderDetailedTraverseNoExit(h, h[node].right, a2)
         IN  pushValue(pushStep(a3, h[node].value, "visit"), h[node].value)
    ELSE acc

RECURSIVE postorderDetailedTraverse(_, _, _)
postorderDetailedTraverse(h, node, acc) ==
    IF node # Null
    THEN LET a1 == pushStep(acc, h[node].value, "enter")
             a2 == postorderDetailedTraverse(h, h[node].left, a1)
             a3 == postorderDetailedTraverse(h, h[node].right, a2)
             a4 == pushValue(pushStep(a3, h[node].value, "visit"), h[node].value)
         IN  pushStep(a4, h[node].value, "exit")
    ELSE acc

postorderDetailed(r, h) ==
    LET a == postorderDetailedTraverse(h, r, [steps |-> <<>>, values |-> <<>>]) IN
    [root |-> r, heap |-> h, steps |-> a.steps, values |-> a.values,
     message |-> traversalMessage("Postorder:", a.values)]

(***************************************************************************)
(* The state machine: one BST instance, one action per public method.      *)
(* op / arg / res record the last call and what it returned; rootBefore /  *)
(* heapBefore are the tree that call started from.                         *)
(***************************************************************************)
NoArg == Null

(* The set of keys the calls made so far should have left in the tree:  *)
(* insert(v) adds v, remove(v) takes v out, clear() empties it.  It is  *)
(* the reference the tree is compared with and is read by no method.    *)
keysAfter(name, a) ==
    IF name = "insert" THEN keys \cup {a}
    ELSE IF name = "remove" THEN keys \ {a}
    ELSE IF name = "clear" THEN {}
    ELSE keys

(* The tree a call starts from. *)
this == Live(root, heap)

(* A method call: root / heap become what the method leaves, and the      *)
(* record it returns is kept in res.                                      *)
Method(name, a, out) ==
    /\ op' = name
    /\ arg' = a
    /\ rootBefore' = this.root
    /\ heapBefore' = this.heap
    /\ root' = out.root
    /\ heap' = out.heap
    /\ res' = [f \in (DOMAIN out) \ {"root", "heap"} |-> out[f]]
    /\ keys' = keysAfter(name, a)

(* A method call on the engine alone: the component is not involved. *)
Call(name, a, out) == Method(name, a, out) /\ UNCHANGED player

(* constructor(), and the useState initial values of the component. *)
Init ==
    /\ root = Null
    /\ heap = EmptyHeap
    /\ op = "new"
    /\ arg = NoArg
    /\ res = [success |-> TRUE]
    /\ rootBefore = Null
    /\ heapBefore = EmptyHeap
    /\ keys = {}
    /\ traversalFrames = <<>>
    /\ currentStep = 0
    /\ isPlaying = FALSE
    /\ isTraversalActive = FALSE
    /\ highlightedNode = None
    /\ pointerPosition = None
    /\ visitedNodes = <<>>
    /\ pathNodes = <<>>
    /\ animatedEdges = <<>>
    /\ playbackTimerRef = None
    /\ skipToEnd = None

Insert ==
    \E v \in Values :
        /\ Cardinality(DOMAIN this.heap) < MaxNodes
        /\ Call("insert", v, insert(this.root, this.heap, v))

Search == \E v \in Values : Call("search", v, search(this.root, this.heap, v))

Remove == \E v \in Values : Call("remove", v, remove(this.root, this.heap, v))

FindMin == Call("findMin", NoArg, findMin(this.root, this.heap))

FindMax == Call("findMax", NoArg, findMax(this.root, this.heap))

GetHeight == Call("getHeight", NoArg, getHeight(this.root, this.heap))

Clear == Call("clear", NoArg, clear(this.root, this.heap))

Inorder == Call("inorder", NoArg, inorder(this.root, this.heap))

Preorder == Call("preorder", NoArg, preorder(this.root, this.heap))

Postorder == Call("postorder", NoArg, postorder(this.root, this.heap))

InorderDetailed ==
    Call("inorderDetailed", NoArg, inorderDetailed(this.root, this.heap))

PreorderDetailed ==
    Call("preorderDetailed", NoArg, preorderDetailed(this.root, this.heap))

PostorderDetailed ==
    Call("postorderDetailed", NoArg, postorderDetailed(this.root, this.heap))

Next ==
    \/ Insert
    \/ Search
    \/ Remove
    \/ FindMin
    \/ FindMax
    \/ GetHeight
    \/ Clear
    \/ Inorder
    \/ Preorder
    \/ Postorder
    \/ InorderDetailed
    \/ PreorderDetailed
    \/ PostorderDetailed

Spec == Init /\ [][Next]_vars

(***************************************************************************)
(* Vocabulary of the properties.                                           *)
(***************************************************************************)
(* The values stored in the subtree at node n. *)
ValuesOf(h, n) == {h[m].value : m \in Nodes(h, n)}

(* left subtree < node < right subtree, at every node under r. *)
Ordered(r, h) ==
    \A n \in Nodes(h, r) :
        /\ \A m \in Nodes(h, h[n].left) : h[m].value < h[n].value
        /\ \A m \in Nodes(h, h[n].right) : h[m].value > h[n].value

(* No value is stored in two nodes under r. *)
NoDuplicate(r, h) ==
    \A m, n \in Nodes(h, r) : m # n => h[m].value # h[n].value

IsBST(r, h) == Ordered(r, h) /\ NoDuplicate(r, h)

StrictlyAscending(q) == \A i \in 1..(Len(q) - 1) : q[i] < q[i + 1]

Range(q) == {q[i] : i \in 1..Len(q)}

(* The node under r that stores value v (Null when there is none). *)
NodeOf(r, h, v) ==
    IF v \in ValuesOf(h, r)
    THEN CHOOSE n \in Nodes(h, r) : h[n].value = v
    ELSE Null

BothChildren(h, n) == h[n].left # Null /\ h[n].right # Null

(***************************************************************************)
(* C1: after any sequence of insert, remove and clear calls (and of the    *)
(* calls that only read), every node of the tree has all values of its     *)
(* left subtree below its own and all values of its right subtree above    *)
(* it, and no value is stored in two nodes; the values stored are the      *)
(* keys inserted and not removed.                                          *)
(***************************************************************************)
C1_BSTInvariant ==
    /\ IsBST(root, heap)
    /\ ValuesOf(heap, root) = keys

(* A two-children removal has just restructured a tree of four nodes. *)
C1_Witness ==
    /\ op = "remove"
    /\ res.success
    /\ BothChildren(heapBefore, NodeOf(rootBefore, heapBefore, arg))
    /\ Cardinality(Nodes(heap, root)) >= 4

(***************************************************************************)
(* C2: inorder() and inorderDetailed() return a strictly ascending values  *)
(* list that holds exactly the keys inserted, each once.                   *)
(***************************************************************************)
C2_InorderSorted ==
    op \in {"inorder", "inorderDetailed"} =>
        /\ StrictlyAscending(res.values)
        /\ Range(res.values) = keys
        /\ Len(res.values) = Cardinality(keys)

(* An inorder traversal of a tree whose root is neither its least nor its *)
(* greatest key.                                                          *)
C2_Witness ==
    /\ op = "inorder"
    /\ Len(res.values) >= 4
    /\ heap[root].left # Null
    /\ heap[root].right # Null

(* The same for the detailed traversal. *)
C2_WitnessDetailed ==
    /\ op = "inorderDetailed"
    /\ Len(res.values) >= 4
    /\ heap[root].left # Null
    /\ heap[root].right # Null

(* The i-th node of the descent for v from r: from a node, left when v is *)
(* below its value and right otherwise.                                   *)
RECURSIVE WalkNode(_, _, _, _)
WalkNode(h, r, v, i) ==
    IF i = 1 THEN r
    ELSE LET n == WalkNode(h, r, v, i - 1) IN
         IF n = Null THEN Null
         ELSE IF v < h[n].value THEN h[n].left ELSE h[n].right

(* p lists the values of the first Len(p) nodes of the descent for v, and *)
(* none but the last of them is v.                                        *)
IsDescent(h, r, v, p) ==
    /\ \A i \in 1..Len(p) :
           /\ WalkNode(h, r, v, i) # Null
           /\ p[i] = h[WalkNode(h, r, v, i)].value
    /\ \A i \in 1..(Len(p) - 1) : p[i] # v

EndsAt(p, v) == Len(p) >= 1 /\ p[Len(p)] = v

(* The descent ran into a null link after the last node of p. *)
EndsAtNull(h, r, v, p) ==
    /\ WalkNode(h, r, v, Len(p) + 1) = Null
    /\ Len(p) >= 1 => p[Len(p)] # v

(* The tree built by inserting the values of q in order into the empty tree. *)
RECURSIVE Built(_)
Built(q) ==
    IF q = <<>> THEN [root |-> Null, heap |-> EmptyHeap]
    ELSE LET t == Built(SubSeq(q, 1, Len(q) - 1)) IN
         insert(t.root, t.heap, q[Len(q)])

(* The example tree of the documentation. *)
ExampleTree == Built(<<15, 6, 23, 4, 7, 20, 50>>)

(***************************************************************************)
(* C3: insert(v) of a value already in the tree returns success = false,   *)
(* leaves root and every node as they were, and returns the root-to-v      *)
(* descent ending with v, which is the path search(v) returns.             *)
(***************************************************************************)
C3_DuplicateInsert ==
    (op = "insert" /\ arg \in ValuesOf(heapBefore, rootBefore)) =>
        /\ res.success = FALSE
        /\ root = rootBefore
        /\ heap = heapBefore
        /\ IsDescent(heapBefore, rootBefore, arg, res.path)
        /\ EndsAt(res.path, arg)
        /\ res.path = search(rootBefore, heapBefore, arg).path

(* A duplicate was refused two levels below the root. *)
C3_Witness ==
    /\ op = "insert"
    /\ arg \in ValuesOf(heapBefore, rootBefore)
    /\ Len(res.path) >= 3

(***************************************************************************)
(* C4: remove(v) of a value in the tree returns success = true; the values *)
(* left are the previous ones without v, one node fewer; search(v) then    *)
(* returns found = false; and the remaining nodes satisfy the BST          *)
(* invariant (leaf, one child, two children, root or not).                 *)
(***************************************************************************)
C4_RemovePresent ==
    (op = "remove" /\ arg \in ValuesOf(heapBefore, rootBefore)) =>
        /\ res.success = TRUE
        /\ ValuesOf(heap, root) = ValuesOf(heapBefore, rootBefore) \ {arg}
        /\ Cardinality(Nodes(heap, root))
             = Cardinality(Nodes(heapBefore, rootBefore)) - 1
        /\ search(this.root, this.heap, arg).found = FALSE
        /\ IsBST(root, heap)

(* The root, with two children, was removed. *)
C4_Witness ==
    /\ op = "remove"
    /\ rootBefore # Null
    /\ arg = heapBefore[rootBefore].value
    /\ BothChildren(heapBefore, rootBefore)
    /\ res.success

(* A left leaf, and a non-root node with exactly one child, were removed. *)
C4_WitnessLeftLeaf ==
    /\ op = "remove"
    /\ \E n \in Nodes(heapBefore, rootBefore) :
           /\ heapBefore[n].left # Null
           /\ heapBefore[n].right # Null
           /\ heapBefore[heapBefore[n].left].value = arg
           /\ heapBefore[heapBefore[n].left].left = Null
           /\ heapBefore[heapBefore[n].left].right = Null

C4_WitnessOneChild ==
    /\ op = "remove"
    /\ arg \in ValuesOf(heapBefore, rootBefore)
    /\ arg # heapBefore[rootBefore].value
    /\ LET n == NodeOf(rootBefore, heapBefore, arg) IN
           (heapBefore[n].left = Null) # (heapBefore[n].right = Null)

Least(S) == CHOOSE x \in S : \A y \in S : x <= y

Greatest(S) == CHOOSE x \in S : \A y \in S : x >= y

(* The node of h whose left or right link is n. *)
ParentOf(h, n) == CHOOSE q \in DOMAIN h : h[q].left = n \/ h[q].right = n

(***************************************************************************)
(* C5: when remove(v) finds v in a node with two children, that node stays *)
(* where it is (same root, same link from its parent) and its value        *)
(* becomes the least value of its former right subtree; that value is      *)
(* still in the tree; the node that held it is unlinked, its right child   *)
(* taking its place in its parent's slot; and the left subtree of v's      *)
(* node is untouched.  On the tree built from 15,6,23,4,7,20,50,           *)
(* remove(15) leaves 20 at the root.                                       *)
(***************************************************************************)
C5_TwoChildrenRemove ==
    /\ (/\ op = "remove"
        /\ arg \in ValuesOf(heapBefore, rootBefore)
        /\ BothChildren(heapBefore, NodeOf(rootBefore, heapBefore, arg)))
       =>
       LET hb == heapBefore
           c == NodeOf(rootBefore, hb, arg)
           succVal == Least(ValuesOf(hb, hb[c].right))
           s == NodeOf(hb[c].right, hb, succVal)
           sp == ParentOf(hb, s)
       IN  /\ root = rootBefore
           /\ c \in Nodes(heap, root)
           /\ \A n \in DOMAIN hb :
                  /\ hb[n].left = c => heap[n].left = c
                  /\ hb[n].right = c => heap[n].right = c
           /\ heap[c].value = succVal
           /\ succVal \in ValuesOf(heap, root)
           /\ s \notin Nodes(heap, root)
           /\ hb[s].left = Null
           /\ IF sp = c
              THEN heap[c].right = hb[s].right
              ELSE /\ heap[sp].left = hb[s].right
                   /\ heap[sp].right = hb[sp].right
                   /\ heap[c].right = hb[c].right
           /\ heap[c].left = hb[c].left
           /\ \A n \in Nodes(hb, hb[c].left) : heap[n] = hb[n]
    /\ LET out == remove(ExampleTree.root, ExampleTree.heap, 15) IN
           /\ out.success
           /\ out.root = ExampleTree.root
           /\ out.heap[out.root].value = 20
           /\ inorder(out.root, out.heap).values = <<4, 6, 7, 20, 23, 50>>

(* The successor was below the right child and had a right child itself. *)
C5_Witness ==
    /\ op = "remove"
    /\ arg \in ValuesOf(heapBefore, rootBefore)
    /\ LET hb == heapBefore
           c == NodeOf(rootBefore, hb, arg)
       IN  /\ BothChildren(hb, c)
           /\ hb[hb[c].right].left # Null
           /\ LET s == NodeOf(hb[c].right, hb,
                              Least(ValuesOf(hb, hb[c].right)))
              IN  hb[s].right # Null

(* The successor was the right child itself. *)
C5_WitnessDirect ==
    /\ op = "remove"
    /\ arg \in ValuesOf(heapBefore, rootBefore)
    /\ LET hb == heapBefore
           c == NodeOf(rootBefore, hb, arg)
       IN  /\ BothChildren(hb, c)
           /\ hb[hb[c].right].left = Null
           /\ hb[hb[c].right].right # Null

(***************************************************************************)
(* C6: search(v) returns found = true exactly when v is in the tree; its   *)
(* path lists the values of the nodes of the descent from the root (left   *)
(* when v is below the node's value, right otherwise), ending with v when  *)
(* found and with the last node before the null link when not.  On the     *)
(* tree built from 15,6,23,4,7,20,50, search(20) returns [15,23,20].       *)
(***************************************************************************)
C6_Search ==
    /\ op = "search" =>
           /\ res.found = (arg \in ValuesOf(heapBefore, rootBefore))
           /\ IsDescent(heapBefore, rootBefore, arg, res.path)
           /\ IF res.found
              THEN EndsAt(res.path, arg)
              ELSE EndsAtNull(heapBefore, rootBefore, arg, res.path)
    /\ LET out == search(ExampleTree.root, ExampleTree.heap, 20) IN
           out.found /\ out.path = <<15, 23, 20>>

(* A search that failed after comparing with three nodes. *)
C6_Witness ==
    /\ op = "search"
    /\ ~res.found
    /\ Len(res.path) >= 3

(* A search that found its value two levels below the root. *)
C6_WitnessFound ==
    /\ op = "search"
    /\ res.found
    /\ Len(res.path) >= 3

(***************************************************************************)
(* C7: search(v) never changes the tree; remove(v) of a value that is not  *)
(* in the tree returns success = false, leaves root and every node as they *)
(* were, and returns the comparison path search(v) returns on that tree    *)
(* (the descent for v, down to the null link).                             *)
(***************************************************************************)
C7_NotFoundNoMutation ==
    /\ op = "search" => (root = rootBefore /\ heap = heapBefore)
    /\ (op = "remove" /\ arg \notin ValuesOf(heapBefore, rootBefore)) =>
           /\ res.success = FALSE
           /\ root = rootBefore
           /\ heap = heapBefore
           /\ res.path = search(rootBefore, heapBefore, arg).path
           /\ IsDescent(heapBefore, rootBefore, arg, res.path)
           /\ EndsAtNull(heapBefore, rootBefore, arg, res.path)

(* A removal that failed after comparing with three nodes, the last step *)
(* of the descent going right.                                           *)
C7_Witness ==
    /\ op = "remove"
    /\ ~res.success
    /\ Len(res.path) >= 3
    /\ arg > res.path[Len(res.path)]

(* A search on a tree of at least three nodes. *)
C7_WitnessSearch ==
    /\ op = "search"
    /\ Cardinality(Nodes(heap, root)) >= 3

(***************************************************************************)
(* C8: insert(v) of a value not in the tree returns success = true and the *)
(* path search(v) returned before the insert, followed by v; the new node  *)
(* is a leaf, linked on v's side of the last node of that path (or is the  *)
(* root, with path [v], when the tree was empty); every node that was      *)
(* there keeps its value and its other links.                              *)
(***************************************************************************)
C8_InsertNew ==
    (op = "insert" /\ arg \notin ValuesOf(heapBefore, rootBefore)) =>
        LET hb == heapBefore
            sp == search(rootBefore, hb, arg).path
            new == CHOOSE n \in DOMAIN heap : n \notin DOMAIN hb
        IN  /\ res.success = TRUE
            /\ res.path = Append(sp, arg)
            /\ DOMAIN heap = DOMAIN hb \cup {new}
            /\ new \notin DOMAIN hb
            /\ heap[new] = BSTNode(arg)
            /\ IF rootBefore = Null
               THEN root = new /\ res.path = <<arg>>
               ELSE LET last == NodeOf(rootBefore, hb, sp[Len(sp)]) IN
                    /\ root = rootBefore
                    /\ \A n \in DOMAIN hb \ {last} : heap[n] = hb[n]
                    /\ heap[last].value = hb[last].value
                    /\ IF arg < hb[last].value
                       THEN /\ hb[last].left = Null
                            /\ heap[last].left = new
                            /\ heap[last].right = hb[last].right
                       ELSE /\ hb[last].right = Null
                            /\ heap[last].right = new
                            /\ heap[last].left = hb[last].left

(* A node was attached as the right child of a node that has a left child. *)
C8_Witness ==
    /\ op = "insert"
    /\ res.success
    /\ Len(res.path) >= 3
    /\ \E n \in DOMAIN heapBefore :
           /\ heap[n].left # Null
           /\ heap[n].right # Null
           /\ heap[heap[n].right].value = arg

(* A node was inserted into the empty tree. *)
C8_WitnessRoot ==
    /\ op = "insert"
    /\ rootBefore = Null
    /\ root # Null

(* The values met by following only left / only right links from node n. *)
RECURSIVE LeftSpine(_, _)
LeftSpine(h, n) ==
    IF n = Null THEN <<>> ELSE <<h[n].value>> \o LeftSpine(h, h[n].left)

RECURSIVE RightSpine(_, _)
RightSpine(h, n) ==
    IF n = Null THEN <<>> ELSE <<h[n].value>> \o RightSpine(h, h[n].right)

(***************************************************************************)
(* C9: on a non-empty tree findMin() / findMax() return the least /        *)
(* greatest value stored; the path is the chain of values met by following *)
(* only left / only right links from the root, and it ends with the value  *)
(* returned.                                                               *)
(***************************************************************************)
C9_MinMax ==
    /\ (op = "findMin" /\ rootBefore # Null) =>
           /\ res.value = Least(ValuesOf(heapBefore, rootBefore))
           /\ res.path = LeftSpine(heapBefore, rootBefore)
           /\ EndsAt(res.path, res.value)
    /\ (op = "findMax" /\ rootBefore # Null) =>
           /\ res.value = Greatest(ValuesOf(heapBefore, rootBefore))
           /\ res.path = RightSpine(heapBefore, rootBefore)
           /\ EndsAt(res.path, res.value)

(* findMax went down two right links in a tree that also has left links. *)
C9_Witness ==
    /\ op = "findMax"
    /\ Len(res.path) >= 3
    /\ heapBefore[rootBefore].left # Null

(* The same for findMin. *)
C9_WitnessMin ==
    /\ op = "findMin"
    /\ Len(res.path) >= 3
    /\ heapBefore[rootBefore].right # Null

Actions == {"enter", "visit", "exit"}

Detailed == {"inorderDetailed", "preorderDetailed", "postorderDetailed"}

(* The positions among the first k steps of st that carry action a. *)
Positions(st, k, a) == {i \in 1..k : st[i].action = a}

(* enter count - exit count over the first k steps. *)
Depth(st, k) ==
    Cardinality(Positions(st, k, "enter")) - Cardinality(Positions(st, k, "exit"))

(***************************************************************************)
(* C10: in the event log of inorderDetailed, preorderDetailed and          *)
(* postorderDetailed every value of the tree has exactly one enter, one    *)
(* visit and one exit event, the log has 3n events for n nodes, and the    *)
(* number of enters minus the number of exits is >= 0 over every prefix    *)
(* and 0 over the whole log.                                               *)
(***************************************************************************)
C10_EventLog ==
    op \in Detailed =>
        LET st == res.steps
            vs == ValuesOf(heapBefore, rootBefore)
        IN  /\ Len(st) = 3 * Cardinality(Nodes(heapBefore, rootBefore))
            /\ \A i \in 1..Len(st) :
                   st[i].value \in vs /\ st[i].action \in Actions
            /\ \A v \in vs : \A a \in Actions :
                   Cardinality({i \in 1..Len(st) :
                                   st[i] = [value |-> v, action |-> a]}) = 1
            /\ \A k \in 0..Len(st) : Depth(st, k) >= 0
            /\ Depth(st, Len(st)) = 0

(* A postorder log of a tree with a node that has two children. *)
C10_Witness ==
    /\ op = "postorderDetailed"
    /\ Len(res.steps) >= 12
    /\ \E n \in Nodes(heap, root) : BothChildren(heap, n)

(* The same for the inorder and the preorder log. *)
C10_WitnessInorder ==
    /\ op = "inorderDetailed"
    /\ Len(res.steps) >= 12
    /\ \E n \in Nodes(heap, root) : BothChildren(heap, n)

C10_WitnessPreorder ==
    /\ op = "preorderDetailed"
    /\ Len(res.steps) >= 12
    /\ \E n \in Nodes(heap, root) : BothChildren(heap, n)

(* The position in the log st of the event of value v with action a. *)
EventPos(st, v, a) ==
    CHOOSE i \in 1..Len(st) : st[i] = [value |-> v, action |-> a]

(* The values below node n: its subtree without n itself. *)
DescendantValues(h, n) == ValuesOf(h, h[n].left) \cup ValuesOf(h, h[n].right)

(***************************************************************************)
(* C11: in every detailed event log, for every node n, enter(n) comes      *)
(* before and exit(n) after every event of n's descendants; the events of  *)
(* the left subtree come before those of the right subtree; visit(n) lies  *)
(* between enter(n) and exit(n): for inorder after all left-subtree events *)
(* and before all right-subtree events, for preorder right after           *)
(* enter(n), for postorder right before exit(n), after all events of the   *)
(* descendants.                                                            *)
(***************************************************************************)
C11_EventOrder ==
    op \in Detailed =>
        LET st == res.steps
            hb == heapBefore
        IN  \A n \in Nodes(hb, rootBefore) :
              LET v == hb[n].value
                  enter == EventPos(st, v, "enter")
                  visit == EventPos(st, v, "visit")
                  exit == EventPos(st, v, "exit")
                  L == ValuesOf(hb, hb[n].left)
                  R == ValuesOf(hb, hb[n].right)
              IN  /\ enter < visit /\ visit < exit
                  /\ \A d \in DescendantValues(hb, n) : \A a \in Actions :
                         enter < EventPos(st, d, a) /\ EventPos(st, d, a) < exit
                  /\ \A l \in L : \A r \in R : \A a, b \in Actions :
                         EventPos(st, l, a) < EventPos(st, r, b)
                  /\ op = "inorderDetailed" =>
                         /\ \A l \in L : \A a \in Actions :
                                EventPos(st, l, a) < visit
                         /\ \A r \in R : \A a \in Actions :
                                visit < EventPos(st, r, a)
                  /\ op = "preorderDetailed" => visit = enter + 1
                  /\ op = "postorderDetailed" =>
                         /\ visit = exit - 1
                         /\ \A d \in DescendantValues(hb, n) : \A a \in Actions :
                                EventPos(st, d, a) < visit

(* An inorder log of a tree in which a node with two children has a *)
(* grandchild.                                                      *)
C11_Witness ==
    /\ op = "inorderDetailed"
    /\ \E n \in Nodes(heapBefore, rootBefore) :
           /\ BothChildren(heapBefore, n)
           /\ Cardinality(Nodes(heapBefore, n)) >= 4

C11_WitnessPreorder ==
    /\ op = "preorderDetailed"
    /\ \E n \in Nodes(heapBefore, rootBefore) :
           /\ BothChildren(heapBefore, n)
           /\ Cardinality(Nodes(heapBefore, n)) >= 4

C11_WitnessPostorder ==
    /\ op = "postorderDetailed"
    /\ \E n \in Nodes(heapBefore, rootBefore) :
           /\ BothChildren(heapBefore, n)
           /\ Cardinality(Nodes(heapBefore, n)) >= 4

(* q lists the values under r, each once. *)
ListsEachOnce(q, h, r) ==
    /\ Range(q) = ValuesOf(h, r)
    /\ Len(q) = Cardinality(Nodes(h, r))

(* The position of value v in the list q. *)
ValuePos(q, v) == CHOOSE i \in 1..Len(q) : q[i] = v

(* In q the values of every left subtree come before those of the right. *)
LeftBeforeRight(q, h, r) ==
    \A n \in Nodes(h, r) :
        \A l \in ValuesOf(h, h[n].left) : \A x \in ValuesOf(h, h[n].right) :
            ValuePos(q, l) < ValuePos(q, x)

IsVisit(e) == e.action = "visit"

(* The values of the visit events of the log st, in order. *)
VisitValues(st) ==
    LET vis == SelectSeq(st, IsVisit) IN
    [i \in 1..Len(vis) |-> vis[i].value]

(***************************************************************************)
(* C12: preorder() and postorder() return every stored value exactly once, *)
(* in root-left-right and left-right-root order; and for each of the three *)
(* orders the values of the detailed traversal are the values of the plain *)
(* traversal and the values of the visit events of its steps, in order.    *)
(***************************************************************************)
C12_TraversalOrders ==
    LET hb == heapBefore
        rb == rootBefore
    IN  /\ op = "preorder" =>
               /\ ListsEachOnce(res.values, hb, rb)
               /\ LeftBeforeRight(res.values, hb, rb)
               /\ \A n \in Nodes(hb, rb) : \A d \in DescendantValues(hb, n) :
                      ValuePos(res.values, hb[n].value) < ValuePos(res.values, d)
        /\ op = "postorder" =>
               /\ ListsEachOnce(res.values, hb, rb)
               /\ LeftBeforeRight(res.values, hb, rb)
               /\ \A n \in Nodes(hb, rb) : \A d \in DescendantValues(hb, n) :
                      ValuePos(res.values, d) < ValuePos(res.values, hb[n].value)
        /\ op = "inorderDetailed" =>
               /\ res.values = inorder(rb, hb).values
               /\ res.values = VisitValues(res.steps)
        /\ op = "preorderDetailed" =>
               /\ res.values = preorder(rb, hb).values
               /\ res.values = VisitValues(res.steps)
        /\ op = "postorderDetailed" =>
               /\ res.values = postorder(rb, hb).values
               /\ res.values = VisitValues(res.steps)

(* postorder() on a tree in which a node with two children has a *)
(* grandchild.                                                   *)
C12_Witness ==
    /\ op = "postorder"
    /\ \E n \in Nodes(heapBefore, rootBefore) :
           /\ BothChildren(heapBefore, n)
           /\ Cardinality(Nodes(heapBefore, n)) >= 4

C12_WitnessPreorder ==
    /\ op = "preorder"
    /\ Len(res.values) >= 4
    /\ BothChildren(heapBefore, rootBefore)

C12_WitnessDetailed ==
    /\ op = "postorderDetailed"
    /\ Len(res.values) >= 4
    /\ BothChildren(heapBefore, rootBefore)

(* The nodes at distance k from r. *)
RECURSIVE LevelNodes(_, _, _)
LevelNodes(h, r, k) ==
    IF k = 0 THEN {r} \ {Null}
    ELSE LET up == LevelNodes(h, r, k - 1) IN
         ({h[n].left : n \in up} \cup {h[n].right : n \in up}) \ {Null}

(* The number of edges on the longest path from r down to a leaf. *)
LongestPath(h, r) ==
    IF r = Null THEN -1
    ELSE Greatest({k \in 0..Cardinality(DOMAIN h) : LevelNodes(h, r, k) # {}})

(***************************************************************************)
(* C13: getHeight() returns -1 for the empty tree, 0 for a tree of one     *)
(* node, and in general the number of edges on the longest path from the   *)
(* root to a leaf, which is 1 + the greater of the heights of the root's   *)
(* subtrees; it does not change the tree.                                  *)
(***************************************************************************)
C13_Height ==
    op = "getHeight" =>
        LET hb == heapBefore
            rb == rootBefore
        IN  /\ res.height = LongestPath(hb, rb)
            /\ rb = Null => res.height = -1
            /\ Cardinality(Nodes(hb, rb)) = 1 => res.height = 0
            /\ rb # Null =>
                   LET l == LongestPath(hb, hb[rb].left)
                       r == LongestPath(hb, hb[rb].right)
                   IN  res.height = 1 + (IF l >= r THEN l ELSE r)
            /\ root = rb
            /\ heap = hb

(* The height of a tree of height two or more whose root has two children. *)
C13_Witness ==
    /\ op = "getHeight"
    /\ res.height >= 2
    /\ BothChildren(heapBefore, rootBefore)

C13_WitnessEmpty == op = "getHeight" /\ rootBefore = Null

PlainTraversals == {"inorder", "preorder", "postorder"}

(***************************************************************************)
(* C14: on an empty tree findMin() and findMax() return value = null, an   *)
(* empty path and the message 'Tree is empty'; search(v) and remove(v)     *)
(* return false with an empty path; the six traversals return empty values *)
(* (and empty steps); and the tree is still empty afterwards.              *)
(***************************************************************************)
C14_EmptyTree ==
    rootBefore = Null =>
        /\ op \in {"findMin", "findMax"} =>
               /\ res.value = Null
               /\ res.path = <<>>
               /\ res.message = <<"Tree is empty">>
               /\ root = Null
        /\ op = "search" => (res.found = FALSE /\ res.path = <<>> /\ root = Null)
        /\ op = "remove" => (res.success = FALSE /\ res.path = <<>> /\ root = Null)
        /\ op \in PlainTraversals => (res.values = <<>> /\ root = Null)
        /\ op \in Detailed =>
               (res.values = <<>> /\ res.steps = <<>> /\ root = Null)

(* findMin() was called on the empty tree. *)
C14_Witness == op = "findMin" /\ rootBefore = Null /\ keys = {}

C14_WitnessRemove == op = "remove" /\ rootBefore = Null

C14_WitnessDetailed == op = "preorderDetailed" /\ rootBefore = Null

(* The fields of the record each method returns. *)
ResultFields(name) ==
    IF name \in {"insert", "remove"} THEN {"success", "path", "message"}
    ELSE IF name = "search" THEN {"found", "path", "message"}
    ELSE IF name \in {"findMin", "findMax"} THEN {"value", "path", "message"}
    ELSE IF name = "getHeight" THEN {"height"}
    ELSE IF name = "clear" THEN {"success", "message"}
    ELSE IF name \in PlainTraversals THEN {"values", "message"}
    ELSE IF name \in Detailed THEN {"steps", "values", "message"}
    ELSE {"success"}

(* Every reference stored in root or in a node is null or a node. *)
NoDanglingReference(r, h) ==
    /\ r \in DOMAIN h \cup {Null}
    /\ \A n \in DOMAIN h :
           /\ h[n].left \in DOMAIN h \cup {Null}
           /\ h[n].right \in DOMAIN h \cup {Null}

(***************************************************************************)
(* C15: no call faults.  Every call returns its result (the fields of its  *)
(* record are all there) and leaves every reference null or a node; when   *)
(* remove is not at the root the parent it writes to is a node; and in the *)
(* two-children case the successor reference is a node from the start of   *)
(* the successor search on and has no left child when it is excised.       *)
(***************************************************************************)
C15_NoFault ==
    /\ DOMAIN res = ResultFields(op)
    /\ NoDanglingReference(root, heap)
    /\ (op = "remove" /\ arg \in ValuesOf(heapBefore, rootBefore)) =>
           LET hb == heapBefore
               f == removeFind(hb, Null, rootBefore, FALSE, arg, <<>>)
           IN  /\ f.current \in DOMAIN hb
               /\ f.current # rootBefore => f.parent \in DOMAIN hb
               /\ BothChildren(hb, f.current) =>
                      LET s == successorLoop(hb, f.current,
                                             hb[f.current].right, f.path)
                      IN  /\ hb[f.current].right \in DOMAIN hb
                          /\ s.successor \in DOMAIN hb
                          /\ s.successorParent \in DOMAIN hb
                          /\ hb[s.successor].left = Null

(* A two-children removal whose successor search went down a left link. *)
C15_Witness ==
    /\ op = "remove"
    /\ res.success
    /\ LET c == NodeOf(rootBefore, heapBefore, arg) IN
           /\ BothChildren(heapBefore, c)
           /\ heapBefore[heapBefore[c].right].left # Null

(* What is reachable from the nodes of S in at most k links. *)
RECURSIVE ReachIter(_, _, _)
ReachIter(h, S, k) ==
    IF k = 0 THEN S
    ELSE ReachIter(h,
                   S \cup (({h[n].left : n \in S} \cup {h[n].right : n \in S})
                           \ {Null}),
                   k - 1)

(* The nodes reachable from r; defined also if the links form a cycle. *)
Reach(h, r) ==
    IF r = Null THEN {} ELSE ReachIter(h, {r}, Cardinality(DOMAIN h))

(* The links (node, side) of reachable nodes that point to n. *)
LinksTo(h, r, n) ==
    {l \in Reach(h, r) \X {"left", "right"} :
        IF l[2] = "left" THEN h[l[1]].left = n ELSE h[l[1]].right = n}

(* The nodes under r form a tree. *)
TreeShaped(r, h) ==
    \A n \in Reach(h, r) :
        /\ Cardinality(LinksTo(h, r, n)) = (IF n = r THEN 0 ELSE 1)
        /\ n \notin Reach(h, h[n].left)
        /\ n \notin Reach(h, h[n].right)

(***************************************************************************)
(* C16: after any sequence of insert, remove and clear the nodes reachable *)
(* from root form a tree: no link points to the root, exactly one link     *)
(* points to every other reachable node, no node is reachable from its own *)
(* children; and the node a successful remove unlinks (the node of v, or   *)
(* the successor's node in the two-children case) is the one node that is  *)
(* no longer reachable from root.                                          *)
(***************************************************************************)
C16_TreeShape ==
    /\ TreeShaped(root, heap)
    /\ (op = "remove" /\ res.success) =>
           LET hb == heapBefore
               c == NodeOf(rootBefore, hb, arg)
               unlinked == IF BothChildren(hb, c)
                           THEN NodeOf(hb[c].right, hb,
                                       Least(ValuesOf(hb, hb[c].right)))
                           ELSE c
           IN  Reach(hb, rootBefore) \ Reach(heap, root) = {unlinked}

(* A two-children removal in a tree of five nodes. *)
C16_Witness ==
    /\ op = "remove"
    /\ res.success
    /\ BothChildren(heapBefore, NodeOf(rootBefore, heapBefore, arg))
    /\ Cardinality(Reach(heapBefore, rootBefore)) >= 5

(* A one-child removal below the root. *)
C16_WitnessOneChild ==
    /\ op = "remove"
    /\ res.success
    /\ arg # heapBefore[rootBefore].value
    /\ LET c == NodeOf(rootBefore, heapBefore, arg) IN
           (heapBefore[c].left = Null) # (heapBefore[c].right = Null)

(***************************************************************************)
(* The coordinate provider (BST.getNodesForVisualization) and the          *)
(* animation frame generator (generatePathFrames, generateTraversalFrames  *)
(* of src/src/App.tsx).                                                    *)
(*                                                                         *)
(* A value that may be null or undefined is None or Some(v).  An x         *)
(* coordinate is a dyadic fraction n / d kept in lowest terms: the         *)
(* midpoints (left + right) / 2 are exact in the source's arithmetic too.  *)
(***************************************************************************)

canvasWidth == 800
verticalSpacing == 70
topMargin == 50

(* n / d in lowest terms, d a power of two. *)
RECURSIVE Dyadic(_, _)
Dyadic(n, d) ==
    IF d > 1 /\ n % 2 = 0 THEN Dyadic(n \div 2, d \div 2)
    ELSE [n |-> n, d |-> d]

(* (left + right) / 2 *)
Midpoint(left, right) ==
    Dyadic(left.n * right.d + right.n * left.d, 2 * left.d * right.d)

(* node.left ? node.left.value : null *)
childValue(h, child) == IF child # Null THEN Some(h[child].value) ELSE None

RECURSIVE assignPositions(_, _, _, _, _, _)
assignPositions(h, node, level, left, right, nodes) ==
    IF node = Null THEN nodes
    ELSE LET x == Midpoint(left, right)
             y == topMargin + level * verticalSpacing
             n1 == Append(nodes, [value |-> h[node].value, x |-> x, y |-> y,
                                  left |-> childValue(h, h[node].left),
                                  right |-> childValue(h, h[node].right)])
             n2 == assignPositions(h, h[node].left, level + 1, left, x, n1)
         IN  assignPositions(h, h[node].right, level + 1, x, right, n2)

getNodesForVisualization(r, h) ==
    IF r = Null THEN <<>>
    ELSE assignPositions(h, r, 0, Dyadic(0, 1), Dyadic(canvasWidth, 1), <<>>)

(* getPos of the generators: the position of the first entry of           *)
(* currentNodes with the value, or null.                                  *)
getPos(currentNodes, value) ==
    LET found == {i \in 1..Len(currentNodes) : currentNodes[i].value = value}
    IN  IF found = {} THEN None
        ELSE LET node == currentNodes[Least(found)] IN
             Some([x |-> node.x, y |-> node.y])

(* The frame both generators push first. *)
emptyFrame ==
    [highlightedNode |-> None, pointerPosition |-> None, visitedNodes |-> <<>>,
     pathNodes |-> <<>>, connectedEdges |-> <<>>]

(* { ...pos, value } *)
edgeEnd(pos, value) == [x |-> pos[1].x, y |-> pos[1].y, value |-> value]

(* A frame of generatePathFrames from its local variables. *)
pathFrame(acc) ==
    [highlightedNode |-> acc.currentHighlighted,
     pointerPosition |-> acc.currentPointer,
     visitedNodes |-> acc.currentVisited,
     pathNodes |-> <<>>,
     connectedEdges |-> acc.currentAnimatedEdges]

(* pathStep pushing the second frame before the edge is appended. *)
pathStepStaleEdges(currentNodes, path, i, acc) ==
    LET currentValue == path[i]
        currentPos == getPos(currentNodes, currentValue)
    IN  IF currentPos # None
        THEN LET a1 == [acc EXCEPT !.currentPointer = currentPos,
                                   !.currentHighlighted = Some(currentValue),
                                   !.currentVisited = Append(@, currentValue)]
                 a2 == [a1 EXCEPT !.frames = Append(@, pathFrame(a1))]
             IN  IF i < Len(path)
                 THEN LET nextValue == path[i + 1]
                          nextPos == getPos(currentNodes, nextValue)
                      IN  IF nextPos # None
                          THEN [a2 EXCEPT !.frames = Append(@, pathFrame(a2)),
                                          !.currentAnimatedEdges =
                                             Append(@,
                                               [from |-> edgeEnd(currentPos, currentValue),
                                                to |-> edgeEnd(nextPos, nextValue)])]
                          ELSE a2
                 ELSE a2
        ELSE acc

(* pathStep drawing the edge without looking the next value up. *)
pathStepNoNextTest(currentNodes, path, i, acc) ==
    LET currentValue == path[i]
        currentPos == getPos(currentNodes, currentValue)
    IN  IF currentPos # None
        THEN LET a1 == [acc EXCEPT !.currentPointer = currentPos,
                                   !.currentHighlighted = Some(currentValue),
                                   !.currentVisited = Append(@, currentValue)]
                 a2 == [a1 EXCEPT !.frames = Append(@, pathFrame(a1))]
             IN  IF i < Len(path)
                 THEN LET nextValue == path[i + 1]
                          a3 == [a2 EXCEPT !.currentAnimatedEdges =
                                    Append(@,
                                      [from |-> edgeEnd(currentPos, currentValue),
                                       to |-> edgeEnd(currentPos, nextValue)])]
                      IN  [a3 EXCEPT !.frames = Append(@, pathFrame(a3))]
                 ELSE a2
        ELSE acc

(* One iteration of the for loop of generatePathFrames, at index i (from 1). *)
pathStep(currentNodes, path, i, acc) ==
    LET currentValue == path[i]
        currentPos == getPos(currentNodes, currentValue)
    IN  IF currentPos # None
        THEN LET a1 == [acc EXCEPT !.currentPointer = currentPos,
                                   !.currentHighlighted = Some(currentValue),
                                   !.currentVisited = Append(@, currentValue)]
                 a2 == [a1 EXCEPT !.frames = Append(@, pathFrame(a1))]
             IN  IF i < Len(path)
                 THEN LET nextValue == path[i + 1]
                          nextPos == getPos(currentNodes, nextValue)
                      IN  IF nextPos # None
                          THEN LET a3 == [a2 EXCEPT !.currentAnimatedEdges =
                                             Append(@,
                                               [from |-> edgeEnd(currentPos, currentValue),
                                                to |-> edgeEnd(nextPos, nextValue)])]
                               IN  [a3 EXCEPT !.frames = Append(@, pathFrame(a3))]
                          ELSE a2
                 ELSE a2
        ELSE acc

RECURSIVE pathLoop(_, _, _, _)
pathLoop(currentNodes, path, i, acc) ==
    IF i <= Len(path)
    THEN pathLoop(currentNodes, path, i + 1, pathStep(currentNodes, path, i, acc))
    ELSE acc

(* pathFinal that pushes the final frame without testing finalPos. *)
pathFinalUnchecked(currentNodes, finalHighlight, acc) ==
    IF finalHighlight # None
    THEN Append(acc.frames,
                [highlightedNode |-> finalHighlight,
                 pointerPosition |-> getPos(currentNodes, finalHighlight[1]),
                 visitedNodes |-> acc.currentVisited,
                 pathNodes |-> <<>>,
                 connectedEdges |-> acc.currentAnimatedEdges])
    ELSE acc.frames

(* pathFinal that also marks the highlighted value visited. *)
pathFinalMarksVisited(currentNodes, finalHighlight, acc) ==
    IF finalHighlight # None
    THEN LET finalPos == getPos(currentNodes, finalHighlight[1]) IN
         IF finalPos # None
         THEN Append(acc.frames,
                     [highlightedNode |-> finalHighlight,
                      pointerPosition |-> finalPos,
                      visitedNodes |-> Append(acc.currentVisited, finalHighlight[1]),
                      pathNodes |-> <<>>,
                      connectedEdges |-> acc.currentAnimatedEdges])
         ELSE acc.frames
    ELSE acc.frames

(* The final frame of generatePathFrames. *)
pathFinal(currentNodes, finalHighlight, acc) ==
    IF finalHighlight # None
    THEN LET finalPos == getPos(currentNodes, finalHighlight[1]) IN
         IF finalPos # None
         THEN Append(acc.frames,
                     [highlightedNode |-> finalHighlight,
                      pointerPosition |-> finalPos,
                      visitedNodes |-> acc.currentVisited,
                      pathNodes |-> <<>>,
                      connectedEdges |-> acc.currentAnimatedEdges])
         ELSE acc.frames
    ELSE acc.frames

generatePathFrames(r, h, path, finalHighlight) ==
    LET acc0 == [frames |-> <<emptyFrame>>, currentVisited |-> <<>>,
                 currentAnimatedEdges |-> <<>>, currentPointer |-> None,
                 currentHighlighted |-> None]
        currentNodes == getNodesForVisualization(r, h)
    IN  pathFinal(currentNodes, finalHighlight,
                  pathLoop(currentNodes, path, 1, acc0))

(* A frame of generateTraversalFrames from its local variables. *)
traversalFrame(acc) ==
    [highlightedNode |-> acc.currentHighlighted,
     pointerPosition |-> acc.currentPointer,
     visitedNodes |-> acc.currentVisited,
     pathNodes |-> acc.currentPathNodes,
     connectedEdges |-> <<>>]

(* A filter that lets every value through. *)
filterOutNothing(q, value) == q

(* currentPathNodes.filter(v => v !== value) *)
RECURSIVE filterOut(_, _)
filterOut(q, value) ==
    IF q = <<>> THEN <<>>
    ELSE IF Head(q) # value THEN <<Head(q)>> \o filterOut(Tail(q), value)
    ELSE filterOut(Tail(q), value)

(* q[q.length - 1]: undefined on the empty array. *)
lastOf(q) == IF q = <<>> THEN None ELSE Some(q[Len(q)])

(* if (parentId): undefined and 0 are falsy. *)
truthy(id) == id # None /\ id[1] # 0

(* traversalStep whose visit branch does not record the value. *)
traversalStepVisitUnrecorded(currentNodes, step, acc) ==
    LET pos == getPos(currentNodes, step.value) IN
    IF pos = None THEN acc
    ELSE IF step.action = "enter"
    THEN LET a1 == [acc EXCEPT !.currentPathNodes = Append(@, step.value),
                               !.currentPointer = pos,
                               !.currentHighlighted = Some(step.value)]
         IN  [a1 EXCEPT !.frames = Append(@, traversalFrame(a1))]
    ELSE IF step.action = "visit"
    THEN LET a1 == [acc EXCEPT !.currentPointer = pos,
                               !.currentHighlighted = Some(step.value)]
         IN  [a1 EXCEPT !.frames = Append(@, traversalFrame(a1))]
    ELSE IF step.action = "exit"
    THEN LET rest == filterOut(acc.currentPathNodes, step.value)
             parentId == lastOf(rest)
             a1 == IF truthy(parentId)
                   THEN [acc EXCEPT !.currentPathNodes = rest,
                                    !.currentPointer = getPos(currentNodes, parentId[1]),
                                    !.currentHighlighted = parentId]
                   ELSE [acc EXCEPT !.currentPathNodes = rest,
                                    !.currentPointer = None,
                                    !.currentHighlighted = None]
         IN  [a1 EXCEPT !.frames = Append(@, traversalFrame(a1))]
    ELSE acc

(* traversalStep that looks the coordinate up for enter and visit only. *)
traversalStepExitUnchecked(currentNodes, step, acc) ==
    LET pos == getPos(currentNodes, step.value) IN
    IF step.action = "exit"
    THEN LET rest == filterOut(acc.currentPathNodes, step.value)
             parentId == lastOf(rest)
             a1 == IF truthy(parentId)
                   THEN [acc EXCEPT !.currentPathNodes = rest,
                                    !.currentPointer = getPos(currentNodes, parentId[1]),
                                    !.currentHighlighted = parentId]
                   ELSE [acc EXCEPT !.currentPathNodes = rest,
                                    !.currentPointer = None,
                                    !.currentHighlighted = None]
         IN  [a1 EXCEPT !.frames = Append(@, traversalFrame(a1))]
    ELSE IF pos = None THEN acc
    ELSE IF step.action = "enter"
    THEN LET a1 == [acc EXCEPT !.currentPathNodes = Append(@, step.value),
                               !.currentPointer = pos,
                               !.currentHighlighted = Some(step.value)]
         IN  [a1 EXCEPT !.frames = Append(@, traversalFrame(a1))]
    ELSE IF step.action = "visit"
    THEN LET a1 == [acc EXCEPT !.currentVisited = Append(@, step.value),
                               !.currentPointer = pos,
                               !.currentHighlighted = Some(step.value)]
         IN  [a1 EXCEPT !.frames = Append(@, traversalFrame(a1))]
    ELSE acc

(* traversalStep whose enter branch also marks the value visited. *)
traversalStepEnterVisits(currentNodes, step, acc) ==
    LET pos == getPos(currentNodes, step.value) IN
    IF pos = None THEN acc
    ELSE IF step.action = "enter"
    THEN LET a1 == [acc EXCEPT !.currentPathNodes = Append(@, step.value),
                               !.currentVisited = Append(@, step.value),
                               !.currentPointer = pos,
                               !.currentHighlighted = Some(step.value)]
         IN  [a1 EXCEPT !.frames = Append(@, traversalFrame(a1))]
    ELSE IF step.action = "visit"
    THEN LET a1 == [acc EXCEPT !.currentVisited = Append(@, step.value),
                               !.currentPointer = pos,
                               !.currentHighlighted = Some(step.value)]
         IN  [a1 EXCEPT !.frames = Append(@, traversalFrame(a1))]
    ELSE IF step.action = "exit"
    THEN LET rest == filterOut(acc.currentPathNodes, step.value)
             parentId == lastOf(rest)
             a1 == IF truthy(parentId)
                   THEN [acc EXCEPT !.currentPathNodes = rest,
                                    !.currentPointer = getPos(currentNodes, parentId[1]),
                                    !.currentHighlighted = parentId]
                   ELSE [acc EXCEPT !.currentPathNodes = rest,
                                    !.currentPointer = None,
                                    !.currentHighlighted = None]
         IN  [a1 EXCEPT !.frames = Append(@, traversalFrame(a1))]
    ELSE acc

(* One iteration of the for loop of generateTraversalFrames. *)
traversalStep(currentNodes, step, acc) ==
    LET pos == getPos(currentNodes, step.value) IN
    IF pos = None THEN acc
    ELSE IF step.action = "enter"
    THEN LET a1 == [acc EXCEPT !.currentPathNodes = Append(@, step.value),
                               !.currentPointer = pos,
                               !.currentHighlighted = Some(step.value)]
         IN  [a1 EXCEPT !.frames = Append(@, traversalFrame(a1))]
    ELSE IF step.action = "visit"
    THEN LET a1 == [acc EXCEPT !.currentVisited = Append(@, step.value),
                               !.currentPointer = pos,
                               !.currentHighlighted = Some(step.value)]
         IN  [a1 EXCEPT !.frames = Append(@, traversalFrame(a1))]
    ELSE IF step.action = "exit"
    THEN LET rest == filterOut(acc.currentPathNodes, step.value)
             parentId == lastOf(rest)
             a1 == IF truthy(parentId)
                   THEN [acc EXCEPT !.currentPathNodes = rest,
                                    !.currentPointer = getPos(currentNodes, parentId[1]),
                                    !.currentHighlighted = parentId]
                   ELSE [acc EXCEPT !.currentPathNodes = rest,
                                    !.currentPointer = None,
                                    !.currentHighlighted = None]
         IN  [a1 EXCEPT !.frames = Append(@, traversalFrame(a1))]
    ELSE acc

RECURSIVE traversalLoop(_, _, _, _)
traversalLoop(currentNodes, steps, i, acc) ==
    IF i <= Len(steps)
    THEN traversalLoop(currentNodes, steps, i + 1,
                       traversalStep(currentNodes, steps[i], acc))
    ELSE acc

(* generateTraversalFrames ending on a frame that is blank altogether. *)
generateTraversalFramesBlankEnd(r, h, steps) ==
    LET acc0 == [frames |-> <<emptyFrame>>, currentVisited |-> <<>>,
                 currentPathNodes |-> <<>>, currentPointer |-> None,
                 currentHighlighted |-> None]
        currentNodes == getNodesForVisualization(r, h)
        acc == traversalLoop(currentNodes, steps, 1, acc0)
    IN  Append(acc.frames, emptyFrame)

generateTraversalFrames(r, h, steps) ==
    LET acc0 == [frames |-> <<emptyFrame>>, currentVisited |-> <<>>,
                 currentPathNodes |-> <<>>, currentPointer |-> None,
                 currentHighlighted |-> None]
        currentNodes == getNodesForVisualization(r, h)
        acc == traversalLoop(currentNodes, steps, 1, acc0)
    IN  Append(acc.frames,
               [highlightedNode |-> None, pointerPosition |-> None,
                visitedNodes |-> acc.currentVisited, pathNodes |-> <<>>,
                connectedEdges |-> <<>>])

(***************************************************************************)
(* The frame generators as functions of their inputs.  The tree that       *)
(* supplies the coordinates is built by insert calls; then one generator   *)
(* is applied to a trace drawn from the bounded input sets, and op / arg / *)
(* res record the call, its inputs and the frame list it returned.  The    *)
(* generators read the tree and no state of their own, so a behaviour ends *)
(* with the call.                                                          *)
(***************************************************************************)
(* Bounds: the values of the trees and traces, the length of a path and *)
(* the length of a free event log.                                      *)
FrameMaxVal == 2
MaxPathLen == 3
MaxStepsLen == 2

(* BST.insert takes any number: the values start at 0, the one number *)
(* JavaScript takes for false.                                        *)
FrameValues == 0..FrameMaxVal

(* The sequences over S of length at most n. *)
SeqsUpTo(S, n) == UNION {[1..k -> S] : k \in 0..n}

PathInputs == SeqsUpTo(FrameValues, MaxPathLen)

FinalHighlightInputs == {None} \cup {Some(v) : v \in FrameValues}

StepInputs == SeqsUpTo([value : FrameValues, action : Actions], MaxStepsLen)

FrameOps == {"generatePathFrames", "generateTraversalFrames"}

(* A generator call on the tree as it is. *)
Generate(name, inputs, frames) ==
    /\ op' = name
    /\ arg' = inputs
    /\ res' = [frames |-> frames]
    /\ rootBefore' = this.root
    /\ heapBefore' = this.heap
    /\ root' = this.root
    /\ heap' = this.heap
    /\ keys' = keys
    /\ UNCHANGED player

BuildTree ==
    /\ op \notin FrameOps
    /\ \E v \in FrameValues : Call("insert", v, insert(this.root, this.heap, v))

GeneratePathFrames ==
    /\ op \notin FrameOps
    /\ \E path \in PathInputs : \E finalHighlight \in FinalHighlightInputs :
           Generate("generatePathFrames",
                    [path |-> path, finalHighlight |-> finalHighlight],
                    generatePathFrames(this.root, this.heap, path, finalHighlight))

GenerateTraversalFrames ==
    /\ op \notin FrameOps
    /\ \E steps \in StepInputs :
           Generate("generateTraversalFrames", [steps |-> steps],
                    generateTraversalFrames(this.root, this.heap, steps))

(* The steps of the three detailed traversals of the tree. *)
detailedSteps(r, h) ==
    {inorderDetailed(r, h).steps, preorderDetailed(r, h).steps,
     postorderDetailed(r, h).steps}

(* handleInorder / handlePreorder / handlePostorder: the frames of the log *)
(* of a detailed traversal of the tree.                                    *)
GenerateFramesOfTraversal ==
    /\ op \notin FrameOps
    /\ \E steps \in detailedSteps(this.root, this.heap) :
           Generate("generateTraversalFrames", [steps |-> steps],
                    generateTraversalFrames(this.root, this.heap, steps))

FramesNext ==
    \/ BuildTree
    \/ GeneratePathFrames
    \/ GenerateTraversalFrames
    \/ GenerateFramesOfTraversal

SpecFrames == Init /\ [][FramesNext]_vars

(***************************************************************************)
(* Vocabulary of the frame claims.                                         *)
(***************************************************************************)
(* A value has a coordinate exactly when the tree stores it. *)
HasCoord(v) == v \in ValuesOf(heap, root)

(* The coordinate of value v in the search tree under n, which spans the  *)
(* columns left..right at the given level; null when v is not there.      *)
RECURSIVE CoordUnder(_, _, _, _, _, _)
CoordUnder(h, n, v, level, left, right) ==
    IF n = Null THEN None
    ELSE LET x == Midpoint(left, right) IN
         IF v = h[n].value
         THEN Some([x |-> x, y |-> level * verticalSpacing + topMargin])
         ELSE IF v < h[n].value
         THEN CoordUnder(h, h[n].left, v, level + 1, left, x)
         ELSE CoordUnder(h, h[n].right, v, level + 1, x, right)

CoordOf(v) == CoordUnder(heap, root, v, 0, Dyadic(0, 1), Dyadic(canvasWidth, 1))

(* The edge a -> b between two values that have coordinates. *)
EdgeOf(a, b) ==
    [from |-> [x |-> CoordOf(a)[1].x, y |-> CoordOf(a)[1].y, value |-> a],
     to |-> [x |-> CoordOf(b)[1].x, y |-> CoordOf(b)[1].y, value |-> b]]

(* The edges q[1] -> q[2], ..., q[k] -> q[k + 1]. *)
EdgesUpTo(q, k) == [j \in 1..k |-> EdgeOf(q[j], q[j + 1])]

IsPrefix(p, q) == Len(p) <= Len(q) /\ SubSeq(q, 1, Len(p)) = p

BlankFrame(f) ==
    /\ f.highlightedNode = None
    /\ f.pointerPosition = None
    /\ f.visitedNodes = <<>>
    /\ f.pathNodes = <<>>
    /\ f.connectedEdges = <<>>

(***************************************************************************)
(* C17: generatePathFrames with every path value in the coordinate lookup  *)
(* and no finalHighlight: frame 0 is blank; for each index i of the path   *)
(* there is an arrival frame with highlight path[i], pointer at the        *)
(* coordinate of path[i], visited = path[0..i] and the edges accumulated   *)
(* so far, followed, when i is not the last index, by an edge frame equal  *)
(* to it except that the edge path[i] -> path[i+1] is appended; there is 1 *)
(* frame for the empty path and 2 * len(path) otherwise; the visited and   *)
(* edge lists never shrink from a frame to the next.                       *)
(***************************************************************************)
C17_PathFrames ==
    (/\ op = "generatePathFrames"
     /\ arg.finalHighlight = None
     /\ \A i \in 1..Len(arg.path) : HasCoord(arg.path[i]))
    => LET path == arg.path
           n == Len(path)
           fr == res.frames
       IN  /\ Len(fr) = (IF n = 0 THEN 1 ELSE 2 * n)
           /\ BlankFrame(fr[1])
           /\ \A i \in 1..n :
                 fr[2 * i] = [highlightedNode |-> Some(path[i]),
                              pointerPosition |-> CoordOf(path[i]),
                              visitedNodes |-> SubSeq(path, 1, i),
                              pathNodes |-> <<>>,
                              connectedEdges |-> EdgesUpTo(path, i - 1)]
           /\ \A i \in 1..(n - 1) :
                 fr[2 * i + 1] = [fr[2 * i] EXCEPT !.connectedEdges =
                                     Append(@, EdgeOf(path[i], path[i + 1]))]
           /\ \A k \in 1..(Len(fr) - 1) :
                 /\ IsPrefix(fr[k].visitedNodes, fr[k + 1].visitedNodes)
                 /\ IsPrefix(fr[k].connectedEdges, fr[k + 1].connectedEdges)

(* A descent of three distinct stored values got its six frames. *)
C17_Witness ==
    /\ op = "generatePathFrames"
    /\ arg.finalHighlight = None
    /\ Len(arg.path) = 3
    /\ Cardinality(Range(arg.path)) = 3
    /\ \A i \in 1..3 : HasCoord(arg.path[i])
    /\ Len(res.frames) = 6
    /\ Len(res.frames[6].connectedEdges) = 2

(* The empty path got the blank frame alone. *)
C17_WitnessEmpty ==
    /\ op = "generatePathFrames"
    /\ arg.finalHighlight = None
    /\ arg.path = <<>>
    /\ res.frames = <<emptyFrame>>

(* The number of frames the path itself accounts for: the blank frame, one *)
(* arrival frame per path value that has a coordinate and one edge frame   *)
(* per pair of neighbours that both have one.                              *)
PathFrameCount(path) ==
    1 + Cardinality({i \in 1..Len(path) : HasCoord(path[i])})
      + Cardinality({i \in 1..(Len(path) - 1) :
                        HasCoord(path[i]) /\ HasCoord(path[i + 1])})

(* The last frame highlights value v at its coordinate and repeats the *)
(* visited and edge lists of the frame before it.                      *)
TrailingFrame(fr, v) ==
    LET last == fr[Len(fr)]
        before == fr[Len(fr) - 1]
    IN  /\ last.highlightedNode = Some(v)
        /\ last.pointerPosition = CoordOf(v)
        /\ last.pointerPosition # None
        /\ last.visitedNodes = before.visitedNodes
        /\ last.connectedEdges = before.connectedEdges

(***************************************************************************)
(* C18 as stated: whenever finalHighlight is supplied to                   *)
(* generatePathFrames, exactly one extra frame follows the path frames,    *)
(* with highlight finalHighlight, pointer at that value's coordinate and   *)
(* the visited and edge lists of the frame before it.                      *)
(***************************************************************************)
C18_FinalFrameWheneverSupplied ==
    (op = "generatePathFrames" /\ arg.finalHighlight # None)
    => /\ Len(res.frames) = PathFrameCount(arg.path) + 1
       /\ TrailingFrame(res.frames, arg.finalHighlight[1])

(***************************************************************************)
(* C18, amended: when finalHighlight is supplied to generatePathFrames and *)
(* has a coordinate in the lookup, exactly one extra frame follows the     *)
(* path frames; its highlight is finalHighlight, its pointer that value's  *)
(* coordinate, and its visited and edge lists are those of the frame       *)
(* before it.                                                              *)
(***************************************************************************)
C18_FinalFrame ==
    (/\ op = "generatePathFrames"
     /\ arg.finalHighlight # None
     /\ HasCoord(arg.finalHighlight[1]))
    => /\ Len(res.frames) = PathFrameCount(arg.path) + 1
       /\ TrailingFrame(res.frames, arg.finalHighlight[1])

(* A found value highlighted after a path of two stored values and an edge. *)
C18_Witness ==
    /\ op = "generatePathFrames"
    /\ arg.finalHighlight # None
    /\ HasCoord(arg.finalHighlight[1])
    /\ Len(arg.path) = 2
    /\ arg.path[2] = arg.finalHighlight[1]
    /\ arg.path[1] # arg.path[2]
    /\ HasCoord(arg.path[1])
    /\ Len(res.frames) = 5
    /\ res.frames[5].highlightedNode = arg.finalHighlight
    /\ Len(res.frames[5].connectedEdges) = 1

(* The path values that have a coordinate, in path order. *)
PresentValues(path) == SelectSeq(path, HasCoord)

(* The values that are an endpoint of an edge of frame f. *)
EdgeEndpoints(f) ==
    UNION {{f.connectedEdges[j].from.value, f.connectedEdges[j].to.value} :
              j \in 1..Len(f.connectedEdges)}

(* The first frame whose visited list has j entries. *)
ArrivalFrame(fr, j) == Least({k \in 1..Len(fr) : Len(fr[k].visitedNodes) = j})

(***************************************************************************)
(* C19: in generatePathFrames a path value that is absent from the         *)
(* coordinate lookup produces no frame, is in no visited list and is an    *)
(* endpoint of no connected edge; the generator returns, and the arrival   *)
(* frames of the other path values are there in path order.                *)
(***************************************************************************)
C19_AbsentSkipped ==
    op = "generatePathFrames"
    => LET path == arg.path
           fr == res.frames
           present == PresentValues(path)
           final == IF arg.finalHighlight # None /\ HasCoord(arg.finalHighlight[1])
                    THEN 1 ELSE 0
       IN  /\ Len(fr) = PathFrameCount(path) + final
           /\ \A k \in 1..Len(fr) :
                 /\ fr[k].highlightedNode # None => HasCoord(fr[k].highlightedNode[1])
                 /\ \A v \in Range(fr[k].visitedNodes) : HasCoord(v)
                 /\ \A v \in EdgeEndpoints(fr[k]) : HasCoord(v)
           /\ fr[Len(fr)].visitedNodes = present
           /\ \A j \in 1..Len(present) :
                 LET f == fr[ArrivalFrame(fr, j)] IN
                 /\ f.highlightedNode = Some(present[j])
                 /\ f.pointerPosition = CoordOf(present[j])
                 /\ f.visitedNodes = SubSeq(present, 1, j)
           /\ \A j \in 1..(Len(present) - 1) :
                 ArrivalFrame(fr, j) < ArrivalFrame(fr, j + 1)

(* A path whose middle value has no coordinate: the two stored values got *)
(* their arrival frames and no edge was drawn.                            *)
C19_Witness ==
    /\ op = "generatePathFrames"
    /\ arg.finalHighlight = None
    /\ Len(arg.path) = 3
    /\ HasCoord(arg.path[1])
    /\ ~HasCoord(arg.path[2])
    /\ HasCoord(arg.path[3])
    /\ Len(res.frames) = 3
    /\ res.frames[3].visitedNodes = <<arg.path[1], arg.path[3]>>
    /\ res.frames[3].connectedEdges = <<>>

(* The path of a removal replayed on the tree after it: the removed leaf *)
(* at the end of the path has no coordinate any more.                    *)
C19_WitnessStale ==
    /\ op = "generatePathFrames"
    /\ Len(arg.path) = 2
    /\ HasCoord(arg.path[1])
    /\ ~HasCoord(arg.path[2])
    /\ Len(res.frames) = 2

(* The events among the first i of the log whose value has a coordinate. *)
Emitting(steps, i) == {j \in 1..i : HasCoord(steps[j].value)}

(* The frame of event i of the log: the blank frame comes first and every *)
(* event whose value has a coordinate adds one.                           *)
FrameOf(steps, i) == 1 + Cardinality(Emitting(steps, i))

(***************************************************************************)
(* C20: in generateTraversalFrames frame 0 is blank and every enter or     *)
(* visit event whose value has a coordinate emits exactly one frame; on    *)
(* enter the value is appended to the path-node stack and the visited list *)
(* is unchanged, on visit the value is appended to the visited list and    *)
(* the path-node stack is unchanged; both set the highlight to the event's *)
(* value and the pointer to its coordinate.                                *)
(***************************************************************************)
C20_EnterVisitFrames ==
    op = "generateTraversalFrames"
    => LET steps == arg.steps
           fr == res.frames
       IN  /\ BlankFrame(fr[1])
           /\ Len(fr) = 2 + Cardinality(Emitting(steps, Len(steps)))
           /\ \A i \in 1..Len(steps) :
                 (HasCoord(steps[i].value) /\ steps[i].action \in {"enter", "visit"})
                 => LET f == fr[FrameOf(steps, i)]
                        before == fr[FrameOf(steps, i) - 1]
                        v == steps[i].value
                    IN  /\ f.highlightedNode = Some(v)
                        /\ f.pointerPosition = CoordOf(v)
                        /\ f.pointerPosition # None
                        /\ f.connectedEdges = <<>>
                        /\ steps[i].action = "enter"
                           => /\ f.pathNodes = Append(before.pathNodes, v)
                              /\ f.visitedNodes = before.visitedNodes
                        /\ steps[i].action = "visit"
                           => /\ f.visitedNodes = Append(before.visitedNodes, v)
                              /\ f.pathNodes = before.pathNodes

(* The log of a detailed traversal of a tree of three nodes: nine events, *)
(* eleven frames, the last enter frame with a stack of two or more.       *)
C20_Witness ==
    /\ op = "generateTraversalFrames"
    /\ Len(arg.steps) = 9
    /\ Len(res.frames) = 11
    /\ \E k \in 1..11 : Len(res.frames[k].pathNodes) >= 2
    /\ res.frames[11].visitedNodes \in {<<0, 1, 2>>, <<1, 0, 2>>, <<0, 2, 1>>}

(* An enter and a visit of a stored value around no other event. *)
C20_WitnessFree ==
    /\ op = "generateTraversalFrames"
    /\ Len(arg.steps) = 2
    /\ arg.steps[1].action = "enter"
    /\ arg.steps[2].action = "visit"
    /\ arg.steps[1].value = arg.steps[2].value
    /\ HasCoord(arg.steps[1].value)
    /\ Len(res.frames) = 4
    /\ res.frames[3].visitedNodes = <<arg.steps[1].value>>
    /\ res.frames[3].pathNodes = <<arg.steps[1].value>>

(* An event of a value without a coordinate left no frame. *)
C20_WitnessSkipped ==
    /\ op = "generateTraversalFrames"
    /\ Len(arg.steps) = 2
    /\ ~HasCoord(arg.steps[1].value)
    /\ HasCoord(arg.steps[2].value)
    /\ arg.steps[2].action = "enter"
    /\ Len(res.frames) = 3

(* q without the entries equal to v. *)
Without(q, v) == LET Keep(x) == x # v IN SelectSeq(q, Keep)

(***************************************************************************)
(* C21: in generateTraversalFrames every exit event whose value has a      *)
(* coordinate removes the value from the path-node stack and emits exactly *)
(* one frame; when the stack is non-empty afterwards the frame highlights  *)
(* the new top value with the pointer at its coordinate, and when it is    *)
(* empty highlight and pointer are null.  The values are any integers the  *)
(* tree stores, 0 included.                                                *)
(***************************************************************************)
C21_ExitFrames ==
    op = "generateTraversalFrames"
    => LET steps == arg.steps
           fr == res.frames
       IN  /\ Len(fr) = 2 + Cardinality(Emitting(steps, Len(steps)))
           /\ \A i \in 1..Len(steps) :
                 (HasCoord(steps[i].value) /\ steps[i].action = "exit")
                 => LET f == fr[FrameOf(steps, i)]
                        before == fr[FrameOf(steps, i) - 1]
                        stack == Without(before.pathNodes, steps[i].value)
                    IN  /\ f.pathNodes = stack
                        /\ stack # <<>>
                           => /\ f.highlightedNode = Some(stack[Len(stack)])
                              /\ f.pointerPosition = CoordOf(stack[Len(stack)])
                        /\ stack = <<>>
                           => /\ f.highlightedNode = None
                              /\ f.pointerPosition = None

(* The values of the visit events of the log that have a coordinate, in *)
(* log order.                                                           *)
ProcessedVisits(steps) ==
    LET Processed(e) == e.action = "visit" /\ HasCoord(e.value)
        visits == SelectSeq(steps, Processed)
    IN  [i \in 1..Len(visits) |-> visits[i].value]

(***************************************************************************)
(* C22: the last frame of generateTraversalFrames has null highlight, null *)
(* pointer, an empty path-node stack and the values of all processed visit *)
(* events in order as its visited list; for the log of a detailed          *)
(* traversal of the tree that is the traversal's values list; when every   *)
(* event has a coordinate there are (number of events + 2) frames.         *)
(***************************************************************************)
C22_CompletionFrame ==
    op = "generateTraversalFrames"
    => LET steps == arg.steps
           fr == res.frames
           last == fr[Len(fr)]
       IN  /\ last.highlightedNode = None
           /\ last.pointerPosition = None
           /\ last.pathNodes = <<>>
           /\ last.visitedNodes = ProcessedVisits(steps)
           /\ steps = inorderDetailed(root, heap).steps
              => last.visitedNodes = inorderDetailed(root, heap).values
           /\ steps = preorderDetailed(root, heap).steps
              => last.visitedNodes = preorderDetailed(root, heap).values
           /\ steps = postorderDetailed(root, heap).steps
              => last.visitedNodes = postorderDetailed(root, heap).values
           /\ (\A i \in 1..Len(steps) : HasCoord(steps[i].value))
              => Len(fr) = Len(steps) + 2

(* The postorder log of a tree of three nodes ended on the postorder of *)
(* its values, after eleven frames.                                     *)
C22_Witness ==
    /\ op = "generateTraversalFrames"
    /\ Cardinality(ValuesOf(heap, root)) = 3
    /\ arg.steps = postorderDetailed(root, heap).steps
    /\ Len(res.frames) = 11
    /\ res.frames[11].visitedNodes = postorder(root, heap).values
    /\ res.frames[11].highlightedNode = None

(* A log that stops inside the traversal: the stack is cleared all the *)
(* same, and the visit of a value without a coordinate is left out.    *)
C22_WitnessOpenStack ==
    /\ op = "generateTraversalFrames"
    /\ Len(arg.steps) = 2
    /\ arg.steps[1].action = "enter"
    /\ HasCoord(arg.steps[1].value)
    /\ arg.steps[2].action = "visit"
    /\ ~HasCoord(arg.steps[2].value)
    /\ Len(res.frames) = 3
    /\ res.frames[2].pathNodes # <<>>
    /\ res.frames[3].pathNodes = <<>>
    /\ res.frames[3].visitedNodes = <<>>

(* The log without the events whose value has no coordinate. *)
WithCoord(steps) == LET Known(e) == HasCoord(e.value) IN SelectSeq(steps, Known)

(***************************************************************************)
(* C23: in generateTraversalFrames an event whose value is absent from the *)
(* coordinate lookup emits no frame and changes neither the path-node      *)
(* stack nor the visited list: the frame list is the one produced from the *)
(* same log with the events of coordinate-less values deleted.             *)
(***************************************************************************)
C23_AbsentEventsSkipped ==
    op = "generateTraversalFrames"
    => /\ res.frames = generateTraversalFrames(root, heap, WithCoord(arg.steps))
       /\ Len(res.frames) = 2 + Len(WithCoord(arg.steps))
       /\ \A k \in 1..Len(res.frames) :
             /\ \A v \in Range(res.frames[k].pathNodes) : HasCoord(v)
             /\ \A v \in Range(res.frames[k].visitedNodes) : HasCoord(v)

(* An exit of a value without a coordinate after an enter of a stored *)
(* value: the stack of the enter frame is the last one shown.         *)
C23_Witness ==
    /\ op = "generateTraversalFrames"
    /\ Len(arg.steps) = 2
    /\ arg.steps[1].action = "enter"
    /\ HasCoord(arg.steps[1].value)
    /\ arg.steps[2].action = "exit"
    /\ ~HasCoord(arg.steps[2].value)
    /\ Len(res.frames) = 3
    /\ res.frames[2].pathNodes = <<arg.steps[1].value>>

(* Every event of the log is of a value without a coordinate. *)
C23_WitnessNone ==
    /\ op = "generateTraversalFrames"
    /\ Len(arg.steps) = 2
    /\ root # Null
    /\ WithCoord(arg.steps) = <<>>
    /\ Len(res.frames) = 2

(***************************************************************************)
(* The playback controller and the operation handlers of the App component *)
(* (src/src/App.tsx).  A handler runs to its end before anything else      *)
(* does: the state updates it makes are applied together.                  *)
(***************************************************************************)
(* Bound: the values the input field offers are 1..MaxInput. *)
MaxInput == 3

(* ControlPanel accepts the whole numbers from 1 on. *)
InputValues == 1..MaxInput

engine == <<root, heap, op, arg, res, rootBefore, heapBefore, keys>>

(* applyFrame that leaves the path nodes of the frame before on display. *)
applyFrameKeepsPath(frame) ==
    /\ highlightedNode' = frame.highlightedNode
    /\ pointerPosition' = frame.pointerPosition
    /\ visitedNodes' = frame.visitedNodes
    /\ pathNodes' = pathNodes
    /\ animatedEdges' = frame.connectedEdges

applyFrame(frame) ==
    /\ highlightedNode' = frame.highlightedNode
    /\ pointerPosition' = frame.pointerPosition
    /\ visitedNodes' = frame.visitedNodes
    /\ pathNodes' = frame.pathNodes
    /\ animatedEdges' = frame.connectedEdges

(* The five set...([]) / set...(null) calls that blank the canvas. *)
resetDisplay ==
    /\ highlightedNode' = None
    /\ pointerPosition' = None
    /\ visitedNodes' = <<>>
    /\ pathNodes' = <<>>
    /\ animatedEdges' = <<>>

(* A playback effect without cleanup: a pending timer is left as it is. *)
playbackEffectNoCleanup ==
    playbackTimerRef' =
        IF playbackTimerRef # None THEN playbackTimerRef
        ELSE IF isPlaying' /\ isTraversalActive'
        THEN Some([currentStep |-> currentStep',
                   traversalFrames |-> traversalFrames'])
        ELSE None

(* The playback effect, run by the render that follows a change of state: *)
(* its cleanup clears the pending timer, and while isPlaying and           *)
(* isTraversalActive it sets a new one, whose callback closes over the     *)
(* currentStep and traversalFrames of that render.                         *)
playbackEffect ==
    playbackTimerRef' =
        IF isPlaying' /\ isTraversalActive'
        THEN Some([currentStep |-> currentStep',
                   traversalFrames |-> traversalFrames'])
        ELSE None

(* A handler runs while no Skip to End loop holds the thread, and the *)
(* render that follows it runs the playback effect.                   *)
render ==
    /\ skipToEnd = None
    /\ skipToEnd' = None
    /\ playbackEffect

(* startAnimation(type, frames); type is the caption only. *)
startAnimation(frames) ==
    /\ traversalFrames' = frames
    /\ currentStep' = 0
    /\ isTraversalActive' = TRUE
    /\ isPlaying' = TRUE
    /\ IF Len(frames) > 0 THEN applyFrame(frames[1]) ELSE resetDisplay
    /\ render

(* A timer callback that starts over from frame 0 after the last frame. *)
PlaybackTickLoops ==
    /\ playbackTimerRef # None
    /\ LET timer == playbackTimerRef[1] IN
       IF timer.currentStep < Len(timer.traversalFrames) - 1
       THEN /\ currentStep' = timer.currentStep + 1
            /\ applyFrame(timer.traversalFrames[timer.currentStep + 2])
       ELSE /\ currentStep' = 0
            /\ applyFrame(timer.traversalFrames[1])
    /\ UNCHANGED <<isPlaying, traversalFrames, isTraversalActive, engine>>
    /\ render

(* The callback of the playback timer, on the values it closed over. *)
PlaybackTick ==
    /\ playbackTimerRef # None
    /\ LET timer == playbackTimerRef[1] IN
       IF timer.currentStep < Len(timer.traversalFrames) - 1
       THEN /\ currentStep' = timer.currentStep + 1
            /\ applyFrame(timer.traversalFrames[timer.currentStep + 2])
            /\ UNCHANGED isPlaying
       ELSE /\ isPlaying' = FALSE
            /\ UNCHANGED <<currentStep, highlightedNode, pointerPosition,
                           visitedNodes, pathNodes, animatedEdges>>
    /\ UNCHANGED <<traversalFrames, isTraversalActive, engine>>
    /\ render

(* The controls are rendered while isTraversalActive only. *)
HandlePlayPause ==
    /\ isTraversalActive
    /\ IF currentStep >= Len(traversalFrames) - 1
       THEN currentStep' = 0 /\ applyFrame(traversalFrames[1])
       ELSE UNCHANGED <<currentStep, highlightedNode, pointerPosition,
                        visitedNodes, pathNodes, animatedEdges>>
    /\ isPlaying' = ~isPlaying
    /\ UNCHANGED <<traversalFrames, isTraversalActive, engine>>
    /\ render

(* handleStepForward without its test of currentStep. *)
HandleStepForwardUntested ==
    /\ isTraversalActive
    /\ currentStep' = currentStep + 1
    /\ UNCHANGED <<highlightedNode, pointerPosition, visitedNodes, pathNodes,
                   animatedEdges>>
    /\ UNCHANGED <<traversalFrames, isPlaying, isTraversalActive, engine>>
    /\ render

HandleStepForward ==
    /\ isTraversalActive
    /\ IF currentStep < Len(traversalFrames) - 1
       THEN currentStep' = currentStep + 1
            /\ applyFrame(traversalFrames[currentStep + 2])
       ELSE UNCHANGED <<currentStep, highlightedNode, pointerPosition,
                        visitedNodes, pathNodes, animatedEdges>>
    /\ UNCHANGED <<traversalFrames, isPlaying, isTraversalActive, engine>>
    /\ render

HandleStepBackward ==
    /\ isTraversalActive
    /\ IF currentStep > 0
       THEN currentStep' = currentStep - 1
            /\ applyFrame(traversalFrames[currentStep])
       ELSE UNCHANGED <<currentStep, highlightedNode, pointerPosition,
                        visitedNodes, pathNodes, animatedEdges>>
    /\ UNCHANGED <<traversalFrames, isPlaying, isTraversalActive, engine>>
    /\ render

HandleReset ==
    /\ isTraversalActive
    /\ isPlaying' = FALSE
    /\ currentStep' = 0
    /\ applyFrame(traversalFrames[1])
    /\ UNCHANGED <<traversalFrames, isTraversalActive, engine>>
    /\ render

HandleCloseTraversal ==
    /\ isTraversalActive
    /\ isPlaying' = FALSE
    /\ isTraversalActive' = FALSE
    /\ resetDisplay
    /\ UNCHANGED <<traversalFrames, currentStep, engine>>
    /\ render

(* handleInsert: the frames are generated on the tree after the insert. *)
handleInsert(v) ==
    LET out == insert(this.root, this.heap, v) IN
    /\ Method("insert", v, out)
    /\ startAnimation(generatePathFrames(out.root, out.heap, out.path, None))

HandleInsert == \E v \in InputValues : handleInsert(v)

handleSearch(v) ==
    LET out == search(this.root, this.heap, v) IN
    /\ Method("search", v, out)
    /\ startAnimation(generatePathFrames(out.root, out.heap, out.path,
                                         IF out.found THEN Some(v) ELSE None))

HandleSearch == \E v \in InputValues : handleSearch(v)

(* handleRemove: the path is replayed on the tree that is left. *)
handleRemove(v) ==
    LET out == remove(this.root, this.heap, v) IN
    /\ Method("remove", v, out)
    /\ startAnimation(generatePathFrames(out.root, out.heap, out.path, None))

HandleRemove == \E v \in InputValues : handleRemove(v)

HandleFindMin ==
    LET out == findMin(this.root, this.heap) IN
    /\ Method("findMin", NoArg, out)
    /\ IF out.value # Null
       THEN startAnimation(generatePathFrames(out.root, out.heap, out.path,
                                              Some(out.value)))
       ELSE skipToEnd = None /\ UNCHANGED player

HandleFindMax ==
    LET out == findMax(this.root, this.heap) IN
    /\ Method("findMax", NoArg, out)
    /\ IF out.value # Null
       THEN startAnimation(generatePathFrames(out.root, out.heap, out.path,
                                              Some(out.value)))
       ELSE skipToEnd = None /\ UNCHANGED player

HandleClear ==
    /\ Method("clear", NoArg, clear(this.root, this.heap))
    /\ resetDisplay
    /\ isTraversalActive' = FALSE
    /\ UNCHANGED <<traversalFrames, currentStep, isPlaying>>
    /\ render

(* handleInorder / handlePreorder / handlePostorder on the result of the *)
(* detailed traversal.                                                   *)
handleTraversal(name, out) ==
    /\ Method(name, NoArg, out)
    /\ IF Len(out.values) = 0
       THEN skipToEnd = None /\ UNCHANGED player
       ELSE startAnimation(generateTraversalFrames(out.root, out.heap, out.steps))

HandleInorder ==
    handleTraversal("inorderDetailed", inorderDetailed(this.root, this.heap))

HandlePreorder ==
    handleTraversal("preorderDetailed", preorderDetailed(this.root, this.heap))

HandlePostorder ==
    handleTraversal("postorderDetailed", postorderDetailed(this.root, this.heap))

(* TraversalControls (src/src/components/InfoPanel.tsx) is rendered with *)
(* the props currentStep and totalSteps = traversalFrames.length.  Its   *)
(* progress is kept as the exact fraction n / d of a percentage.         *)
progress(step, totalSteps) ==
    IF totalSteps > 0
    THEN [n |-> step * 100, d |-> totalSteps]
    ELSE [n |-> 0, d |-> 1]

isAtStart(step) == step = 0

isAtEnd(step, totalSteps) == step >= totalSteps

(* The caption of the status line. *)
status(step, totalSteps, playing) ==
    IF isAtEnd(step, totalSteps) THEN "Traversal Complete"
    ELSE IF playing THEN "Playing..."
    ELSE "Ready to traverse"

(* The disabled attribute of the Step Forward and Skip to End buttons. *)
forwardDisabled(step, totalSteps, playing) ==
    isAtEnd(step, totalSteps) \/ playing

(* Bound: the calls of onStepForward one Skip to End loop is followed for. *)
MaxSkipCalls == 2

(* A click on Skip to End, which is offered unless disabled: the handler *)
(* arrives at the test of its while loop with the props of this render.  *)
SkipToEndClick ==
    /\ isTraversalActive
    /\ skipToEnd = None
    /\ ~forwardDisabled(currentStep, Len(traversalFrames), isPlaying)
    /\ skipToEnd' = Some([currentStep |-> currentStep,
                          totalSteps |-> Len(traversalFrames),
                          calls |-> 0])
    /\ UNCHANGED <<traversalFrames, currentStep, isPlaying, isTraversalActive,
                   highlightedNode, pointerPosition, visitedNodes, pathNodes,
                   animatedEdges, playbackTimerRef, engine>>

(* One test of while (currentStep < totalSteps) onStepForward().  The    *)
(* call queues the updates of handleStepForward, computed from the       *)
(* currentStep of the render the click came from; they are applied by    *)
(* the render that follows the return of the click handler.              *)
SkipToEndLoop ==
    /\ skipToEnd # None
    /\ LET loop == skipToEnd[1] IN
       IF loop.currentStep < loop.totalSteps
       THEN /\ loop.calls < MaxSkipCalls
            /\ skipToEnd' = Some([loop EXCEPT !.calls = loop.calls + 1])
            /\ UNCHANGED <<currentStep, highlightedNode, pointerPosition,
                           visitedNodes, pathNodes, animatedEdges,
                           playbackTimerRef>>
       ELSE /\ skipToEnd' = None
            /\ IF loop.calls > 0 /\ loop.currentStep < Len(traversalFrames) - 1
               THEN /\ currentStep' = loop.currentStep + 1
                    /\ applyFrame(traversalFrames[loop.currentStep + 2])
               ELSE UNCHANGED <<currentStep, highlightedNode, pointerPosition,
                                visitedNodes, pathNodes, animatedEdges>>
            /\ playbackEffect
    /\ UNCHANGED <<traversalFrames, isPlaying, isTraversalActive, engine>>

PlaybackNext ==
    \/ HandleInsert
    \/ HandleSearch
    \/ HandleRemove
    \/ HandleFindMin
    \/ HandleFindMax
    \/ HandleClear
    \/ HandleInorder
    \/ HandlePreorder
    \/ HandlePostorder
    \/ PlaybackTick
    \/ HandlePlayPause
    \/ HandleStepForward
    \/ HandleStepBackward
    \/ HandleReset
    \/ HandleCloseTraversal
    \/ SkipToEndClick
    \/ SkipToEndLoop

SpecPlayback == Init /\ [][PlaybackNext]_vars

(***************************************************************************)
(* The five operations that animate a path, one started after the other    *)
(* with no playback control in between, on the values 1..MaxAnimated.      *)
(***************************************************************************)
(* Bound: the values entered are 1..MaxAnimated. *)
MaxAnimated == 4

AnimatedValues == 1..MaxAnimated

AnimateInsert == \E v \in AnimatedValues : handleInsert(v)

AnimateSearch == \E v \in AnimatedValues : handleSearch(v)

AnimateRemove == \E v \in AnimatedValues : handleRemove(v)

AnimateNext ==
    \/ AnimateInsert
    \/ AnimateSearch
    \/ AnimateRemove
    \/ HandleFindMin
    \/ HandleFindMax

SpecAnimate == Init /\ [][AnimateNext]_vars

(* The five fields on display, as a frame. *)
Displayed ==
    [highlightedNode |-> highlightedNode,
     pointerPosition |-> pointerPosition,
     visitedNodes |-> visitedNodes,
     pathNodes |-> pathNodes,
     connectedEdges |-> animatedEdges]

PathOps == {"insert", "search", "remove", "findMin", "findMax"}

(* The last handler started the animation that traversalFrames holds. *)
StartedByOp ==
    \/ op \in {"insert", "search", "remove"}
    \/ op \in {"findMin", "findMax"} /\ res.value # Null
    \/ op \in Detailed /\ res.values # <<>>

(* q without its last entry. *)
Front(q) == SubSeq(q, 1, Len(q) - 1)

(***************************************************************************)
(* C25: frames are self-contained.  While an animation is on, whichever    *)
(* way the position came to index i (timer, step forward, step backward,   *)
(* reset, restart), the five displayed fields are exactly those of frame   *)
(* i; and the frames generated for a part of the trace are the first       *)
(* frames of the list for the whole trace: generating later frames alters  *)
(* none that is already there.                                             *)
(***************************************************************************)
C25_SelfContained ==
    /\ isTraversalActive
       => /\ currentStep \in 0..(Len(traversalFrames) - 1)
          /\ Displayed = traversalFrames[currentStep + 1]
    /\ (StartedByOp /\ op \in PathOps)
       => \A k \in 0..Len(res.path) :
             IsPrefix(generatePathFrames(root, heap, SubSeq(res.path, 1, k), None),
                      traversalFrames)
    /\ (StartedByOp /\ op \in Detailed)
       => \A k \in 0..Len(res.steps) :
             IsPrefix(Front(generateTraversalFrames(root, heap,
                                                    SubSeq(res.steps, 1, k))),
                      traversalFrames)

(* Paused inside a traversal animation, two steps back from further on: *)
(* the canvas shows frame 3, stack and all.                             *)
C25_Witness ==
    /\ isTraversalActive
    /\ ~isPlaying
    /\ op \in Detailed
    /\ currentStep = 3
    /\ Len(traversalFrames) = 11
    /\ pathNodes # <<>>
    /\ Displayed = traversalFrames[4]
    /\ Displayed # traversalFrames[5]

(* Back on frame 0 of a search animation with edges further on. *)
C25_WitnessReset ==
    /\ isTraversalActive
    /\ ~isPlaying
    /\ op = "search"
    /\ currentStep = 0
    /\ Len(traversalFrames) >= 4
    /\ traversalFrames[Len(traversalFrames)].connectedEdges # <<>>
    /\ animatedEdges = <<>>

(* The tree (r, h) is empty for every reader: no root, height -1 and six *)
(* empty traversals.                                                     *)
EmptyForAll(r, h) ==
    /\ r = Null
    /\ getHeight(r, h).height = -1
    /\ inorder(r, h).values = <<>>
    /\ preorder(r, h).values = <<>>
    /\ postorder(r, h).values = <<>>
    /\ inorderDetailed(r, h).values = <<>> /\ inorderDetailed(r, h).steps = <<>>
    /\ preorderDetailed(r, h).values = <<>> /\ preorderDetailed(r, h).steps = <<>>
    /\ postorderDetailed(r, h).values = <<>> /\ postorderDetailed(r, h).steps = <<>>

(***************************************************************************)
(* C26: clear() from any reachable state leaves an empty tree (root null,  *)
(* getHeight() = -1, every traversal empty) and returns an                 *)
(* acknowledgement; an insert(v) that follows it makes v the root, a leaf, *)
(* and returns success with path [v].                                      *)
(***************************************************************************)
C26_Clear ==
    [][/\ op' = "clear"
          => /\ EmptyForAll(root', heap')
             /\ res' = [success |-> TRUE, message |-> <<"Tree cleared">>]
       /\ (op = "clear" /\ op' = "insert")
          => /\ root' # Null
             /\ Nodes(heap', root') = {root'}
             /\ heap'[root'] = [value |-> arg', left |-> Null, right |-> Null]
             /\ res'.success = TRUE
             /\ res'.path = <<arg'>>]_vars

(* A tree of four or more nodes was cleared. *)
C26_Witness ==
    /\ op = "clear"
    /\ Cardinality(Nodes(heapBefore, rootBefore)) >= 4
    /\ root = Null

(* An insert into a tree that holds nothing, as after clear: no value is *)
(* kept from before.                                                    *)
C26_WitnessInsert ==
    /\ op = "insert"
    /\ rootBefore = Null
    /\ res.path = <<arg>>
    /\ keys = {arg}
    /\ arg > 1

(* The first index of p that holds v. *)
FirstAt(p, v) == Least({i \in 1..Len(p) : p[i] = v})

(***************************************************************************)
(* C27: the path of a successful remove(v) is the root-to-v descent ending *)
(* with v; when v's node has two children the values from its right child  *)
(* down the left spine to the in-order successor, inclusive, follow; for a *)
(* leaf or a node with one child nothing follows v: the value of the       *)
(* spliced child is not on the path.                                       *)
(***************************************************************************)
C27_RemovePath ==
    (op = "remove" /\ res.success)
    => LET hb == heapBefore
           c == NodeOf(rootBefore, hb, arg)
           p == res.path
       IN  /\ c # Null
           /\ arg \in Range(p)
           /\ LET k == FirstAt(p, arg)
                  descent == SubSeq(p, 1, k)
                  rest == SubSeq(p, k + 1, Len(p))
              IN  /\ IsDescent(hb, rootBefore, arg, descent)
                  /\ EndsAt(descent, arg)
                  /\ WalkNode(hb, rootBefore, arg, k) = c
                  /\ IF BothChildren(hb, c)
                     THEN /\ rest = LeftSpine(hb, hb[c].right)
                          /\ rest[Len(rest)] = Least(ValuesOf(hb, hb[c].right))
                     ELSE rest = <<>>

(* A node below the root with two children, whose successor lies under *)
(* its right child: two values follow v on the path.                   *)
C27_Witness ==
    /\ op = "remove"
    /\ res.success
    /\ BothChildren(heapBefore, NodeOf(rootBefore, heapBefore, arg))
    /\ NodeOf(rootBefore, heapBefore, arg) # rootBefore
    /\ Len(res.path) = FirstAt(res.path, arg) + 2

(* A node with one child, below the root: the path ends with v. *)
C27_WitnessOneChild ==
    /\ op = "remove"
    /\ res.success
    /\ LET c == NodeOf(rootBefore, heapBefore, arg) IN
           /\ c # rootBefore
           /\ (heapBefore[c].left = Null) # (heapBefore[c].right = Null)
    /\ Len(res.path) >= 2
    /\ res.path[Len(res.path)] = arg

(***************************************************************************)
(* C28: when remove(v) hits a leaf or a node with exactly one child, the   *)
(* tree afterwards is the old tree with v's slot (the left or right link   *)
(* of its parent, or the root reference) holding v's only child subtree,   *)
(* or nothing for a leaf; the child subtree keeps its shape, and every     *)
(* other node keeps its value and both child links.                        *)
(***************************************************************************)
C28_Splice ==
    (/\ op = "remove"
     /\ arg \in ValuesOf(heapBefore, rootBefore)
     /\ ~BothChildren(heapBefore, NodeOf(rootBefore, heapBefore, arg)))
    => LET hb == heapBefore
           c == NodeOf(rootBefore, hb, arg)
           child == IF hb[c].left # Null THEN hb[c].left ELSE hb[c].right
       IN  /\ res.success
           /\ Nodes(heap, root) = Nodes(hb, rootBefore) \ {c}
           /\ IF c = rootBefore
              THEN /\ root = child
                   /\ \A n \in Nodes(hb, rootBefore) \ {c} : heap[n] = hb[n]
              ELSE LET p == ParentOf(hb, c) IN
                   /\ root = rootBefore
                   /\ heap[p].value = hb[p].value
                   /\ IF hb[p].left = c
                      THEN heap[p].left = child /\ heap[p].right = hb[p].right
                      ELSE heap[p].right = child /\ heap[p].left = hb[p].left
                   /\ \A n \in Nodes(hb, rootBefore) \ {c, p} : heap[n] = hb[n]
           /\ \A n \in Nodes(hb, child) : heap[n] = hb[n]

(* The left child of its parent, with a right subtree of two nodes, is *)
(* removed: the subtree moves up into the parent's left link.          *)
C28_Witness ==
    /\ op = "remove"
    /\ arg \in ValuesOf(heapBefore, rootBefore)
    /\ LET c == NodeOf(rootBefore, heapBefore, arg) IN
           /\ c # rootBefore
           /\ heapBefore[ParentOf(heapBefore, c)].left = c
           /\ heapBefore[c].left = Null
           /\ Cardinality(Nodes(heapBefore, heapBefore[c].right)) = 2
           /\ heap[ParentOf(heapBefore, c)].left = heapBefore[c].right

(* The root, with a left child only, is removed: the child is the root. *)
C28_WitnessRoot ==
    /\ op = "remove"
    /\ rootBefore # Null
    /\ heapBefore[rootBefore].value = arg
    /\ heapBefore[rootBefore].left # Null
    /\ heapBefore[rootBefore].right = Null
    /\ root = heapBefore[rootBefore].left

(* A leaf that is the right child of its parent is removed. *)
C28_WitnessLeaf ==
    /\ op = "remove"
    /\ arg \in ValuesOf(heapBefore, rootBefore)
    /\ LET c == NodeOf(rootBefore, heapBefore, arg) IN
           /\ c # rootBefore
           /\ heapBefore[c].left = Null /\ heapBefore[c].right = Null
           /\ heapBefore[ParentOf(heapBefore, c)].right = c
           /\ heap[ParentOf(heapBefore, c)].right = Null

(* Frame f has what marks the completion frame of the list fr: nothing *)
(* highlighted, no pointer, an empty stack and the final visited list. *)
LooksComplete(fr, f) ==
    /\ f.highlightedNode = None
    /\ f.pointerPosition = None
    /\ f.pathNodes = <<>>
    /\ f.visitedNodes = fr[Len(fr)].visitedNodes

(* The frames are those of the log of a detailed traversal of the tree, *)
(* which is not empty.                                                  *)
FramesOfWholeTraversal ==
    /\ op = "generateTraversalFrames"
    /\ root # Null
    /\ arg.steps \in detailedSteps(root, heap)

(***************************************************************************)
(* C29 as stated: in the frames of the log of a detailed traversal of a    *)
(* non-empty tree no frame before the completion frame has null highlight, *)
(* null pointer, empty path-node stack and the complete visited list all   *)
(* at once.                                                                *)
(***************************************************************************)
C29_CompletionDistinctFromAll ==
    FramesOfWholeTraversal
    => \A k \in 1..(Len(res.frames) - 1) : ~LooksComplete(res.frames, res.frames[k])

(***************************************************************************)
(* C29, amended: in the frames of the log of a detailed traversal of a     *)
(* non-empty tree the completion frame is distinguishable from every frame *)
(* emitted before the exit frame of the root, which is the frame right     *)
(* before it: none of those has null highlight, null pointer, empty        *)
(* path-node stack and the complete visited list all at once.              *)
(***************************************************************************)
C29_CompletionDistinct ==
    FramesOfWholeTraversal
    => \A k \in 1..(Len(res.frames) - 2) : ~LooksComplete(res.frames, res.frames[k])

(* The log of a tree of three nodes: the exit frame of the root, frame 10 *)
(* of 11, is the completion frame over again, and frame 9 is not.         *)
C29_Witness ==
    /\ FramesOfWholeTraversal
    /\ Len(res.frames) = 11
    /\ arg.steps[9] = [value |-> heap[root].value, action |-> "exit"]
    /\ res.frames[10] = res.frames[11]
    /\ res.frames[9].pathNodes # <<>>
    /\ res.frames[9].visitedNodes = res.frames[11].visitedNodes

(* The tree under n as a nested tuple: shape and values, no identities. *)
RECURSIVE Shape(_, _)
Shape(h, n) ==
    IF n = Null THEN <<>>
    ELSE <<Shape(h, h[n].left), h[n].value, Shape(h, h[n].right)>>

(***************************************************************************)
(* C30: round trip.  For every reachable tree T and every value v not in   *)
(* T, insert(v) followed by remove(v) gives a tree with exactly the shape  *)
(* and values of T: v goes in as a leaf and is removed by the leaf case.   *)
(***************************************************************************)
C30_InsertRemoveRoundTrip ==
    [][(/\ op = "insert"
        /\ arg \notin ValuesOf(heapBefore, rootBefore)
        /\ op' = "remove"
        /\ arg' = arg)
       => /\ res.success
          /\ LET n == NodeOf(root, heap, arg) IN
                 n # Null /\ heap[n].left = Null /\ heap[n].right = Null
          /\ res'.success
          /\ res'.message = <<"Removed leaf node", arg>>
          /\ Shape(heap', root') = Shape(heapBefore, rootBefore)
          /\ ValuesOf(heap', root') = ValuesOf(heapBefore, rootBefore)]_vars

(* A leaf was just removed from a tree of five nodes that an insert of *)
(* the same value leads to: four nodes are left, as before the insert. *)
C30_Witness ==
    /\ op = "remove"
    /\ res.success
    /\ res.message = <<"Removed leaf node", arg>>
    /\ Cardinality(Nodes(heapBefore, rootBefore)) = MaxNodes
    /\ Cardinality(Nodes(heap, root)) = MaxNodes - 1
    /\ LET t == insert(Live(root, heap).root, Live(root, heap).heap, arg) IN
           Shape(t.heap, t.root) = Shape(heapBefore, rootBefore)

(* The values on the way from node n down to the node that holds v, both *)
(* ends included.                                                        *)
RECURSIVE ChainTo(_, _, _)
ChainTo(h, n, v) ==
    IF n = Null THEN <<>>
    ELSE IF h[n].value = v THEN <<v>>
    ELSE <<h[n].value>> \o ChainTo(h, IF v < h[n].value THEN h[n].left
                                                         ELSE h[n].right, v)

(* The values entered and not exited by the first i events of a log, in *)
(* the order they were entered, taken from event j on.                  *)
RECURSIVE OpenFrom(_, _, _)
OpenFrom(steps, i, j) ==
    IF j > i THEN <<>>
    ELSE LET closed == \E k \in (j + 1)..i : /\ steps[k].action = "exit"
                                             /\ steps[k].value = steps[j].value
         IN  IF steps[j].action = "enter" /\ ~closed
             THEN <<steps[j].value>> \o OpenFrom(steps, i, j + 1)
             ELSE OpenFrom(steps, i, j + 1)

(***************************************************************************)
(* C31.  In the frames generated from the log of a detailed traversal of   *)
(* the tree, the pathNodes of the frame of each event are the values       *)
(* entered and not yet exited, in the order they were entered, and that is *)
(* the chain of values from the root down to the node of the event (down   *)
(* to its parent for an exit event); at an exit event the value is the top *)
(* of the stack of the frame before, so filtering it out pops it.          *)
(***************************************************************************)
C31_PathNodesAreAncestors ==
    FramesOfWholeTraversal
    => LET steps == arg.steps
           fr == res.frames
       IN  /\ Len(fr) = Len(steps) + 2
           /\ \A i \in 1..Len(steps) :
                 LET f == fr[i + 1]
                     chain == ChainTo(heap, root, steps[i].value)
                 IN  /\ f.pathNodes = OpenFrom(steps, i, 1)
                     /\ steps[i].action \in {"enter", "visit"}
                        => f.pathNodes = chain
                     /\ steps[i].action = "exit"
                        => /\ fr[i].pathNodes = chain
                           /\ f.pathNodes = Front(fr[i].pathNodes)

(* An exit event of the deepest node of a chain of three pops a stack of *)
(* three.                                                                *)
C31_Witness ==
    /\ FramesOfWholeTraversal
    /\ \E i \in 1..Len(arg.steps) :
          /\ arg.steps[i].action = "exit"
          /\ Len(res.frames[i].pathNodes) = 3
          /\ res.frames[i + 1].pathNodes = Front(res.frames[i].pathNodes)

(***************************************************************************)
(* C32.  In every frame of generatePathFrames and generateTraversalFrames, *)
(* whatever the trace and whichever of its values the tree lacks, the      *)
(* highlighted value is null exactly when the pointer is null, and a       *)
(* non-null pointer is the coordinate of the highlighted value.            *)
(***************************************************************************)
C32_HighlightHasPointer ==
    op \in FrameOps
    => \A i \in 1..Len(res.frames) :
          LET f == res.frames[i] IN
          /\ f.highlightedNode = None <=> f.pointerPosition = None
          /\ f.highlightedNode # None
             => /\ HasCoord(f.highlightedNode[1])
                /\ f.pointerPosition = CoordOf(f.highlightedNode[1])

(* A path trace with a value the tree lacks and a final highlight it has: *)
(* the last frame points at the highlighted value.                        *)
C32_Witness ==
    /\ op = "generatePathFrames"
    /\ \E j \in 1..Len(arg.path) : ~HasCoord(arg.path[j])
    /\ arg.finalHighlight # None
    /\ res.frames[Len(res.frames)].highlightedNode = arg.finalHighlight
    /\ res.frames[Len(res.frames)].pathNodes = <<>>
    /\ Len(res.frames) >= 3

(* The final highlight is a value the tree lacks: no frame is pushed for *)
(* it.                                                                   *)
C32_WitnessMissingFinal ==
    /\ op = "generatePathFrames"
    /\ arg.finalHighlight # None
    /\ ~HasCoord(arg.finalHighlight[1])
    /\ Len(res.frames) >= 2

(* An exit event gives a frame with a non-empty stack and the pointer at *)
(* the coordinate of its top.                                            *)
C32_WitnessExit ==
    /\ op = "generateTraversalFrames"
    /\ \E i \in 2..Len(res.frames) :
          /\ Len(res.frames[i].pathNodes) < Len(res.frames[i - 1].pathNodes)
          /\ res.frames[i].highlightedNode # None

(***************************************************************************)
(* Playback left to itself: an operation is started only while no timer is *)
(* pending, and no playback control is pressed.  A timer that is set and   *)
(* not cleared fires: the timer callback is weakly fair.                   *)
(***************************************************************************)
StartOperation ==
    /\ playbackTimerRef = None
    /\ \/ HandleInsert
       \/ HandleSearch
       \/ HandleRemove
       \/ HandleFindMin
       \/ HandleFindMax
       \/ HandleClear
       \/ HandleInorder
       \/ HandlePreorder
       \/ HandlePostorder

AutoplayNext == StartOperation \/ PlaybackTick

SpecAutoplay == Init /\ [][AutoplayNext]_vars /\ WF_vars(PlaybackTick)

(* The values held by the children of the node that holds v. *)
ChildValues(r, h, v) ==
    LET n == NodeOf(r, h, v) IN
    IF n = Null THEN {}
    ELSE {h[c].value : c \in {h[n].left, h[n].right} \ {Null}}

(***************************************************************************)
(* C33.  When insert, search, remove, findMin or findMax has been animated *)
(* by its handler, every connected edge of every frame of the animation    *)
(* goes from a node of the tree the frames were generated on to one of     *)
(* that node's own children.                                               *)
(***************************************************************************)
C33_EdgesParentToChild ==
    (op \in PathOps /\ StartedByOp)
    => \A k \in 1..Len(traversalFrames) :
          \A j \in 1..Len(traversalFrames[k].connectedEdges) :
              LET edge == traversalFrames[k].connectedEdges[j] IN
              edge.to.value \in ChildValues(root, heap, edge.from.value)

(***************************************************************************)
(* C34.  Whenever an animation is active, the frame list is non-empty and  *)
(* 0 <= currentStep <= frames.length - 1, whichever operations, timer      *)
(* ticks and controls came before; a step forward at the last frame and a  *)
(* step backward at frame 0 leave the step and the display as they are.    *)
(***************************************************************************)
C34_StepInRange ==
    /\ [](isTraversalActive
          => /\ Len(traversalFrames) >= 1
             /\ 0 <= currentStep
             /\ currentStep <= Len(traversalFrames) - 1)
    /\ [][(HandleStepForward /\ currentStep = Len(traversalFrames) - 1)
          => UNCHANGED <<currentStep, Displayed>>]_vars
    /\ [][(HandleStepBackward /\ currentStep = 0)
          => UNCHANGED <<currentStep, Displayed>>]_vars

(* Paused on the last of at least three frames, with the controls *)
(* rendered and no loop holding the thread: Step Forward can run.  *)
C34_Witness ==
    /\ isTraversalActive
    /\ ~isPlaying
    /\ skipToEnd = None
    /\ Len(traversalFrames) >= 3
    /\ currentStep = Len(traversalFrames) - 1
    /\ Displayed = traversalFrames[Len(traversalFrames)]

(* Paused on frame 0 of a list with more frames. *)
C34_WitnessStart ==
    /\ isTraversalActive
    /\ ~isPlaying
    /\ skipToEnd = None
    /\ Len(traversalFrames) >= 3
    /\ currentStep = 0
    /\ Displayed = traversalFrames[1]

(***************************************************************************)
(* C35.  With no control pressed, an animation starts playing at frame 0;  *)
(* each timer tick before the last frame advances currentStep by exactly   *)
(* one and displays the frame of the new index, the tick at the last frame *)
(* only stops playback, and every animation that is playing eventually     *)
(* stands stopped on its last frame: playback ends and does not loop.      *)
(***************************************************************************)
C35_PlaysToTheEnd ==
    /\ [][traversalFrames' # traversalFrames
          => /\ currentStep' = 0
             /\ isPlaying' /\ isTraversalActive'
             /\ Displayed' = traversalFrames'[1]]_vars
    /\ [][PlaybackTick
          => /\ UNCHANGED traversalFrames
             /\ \/ /\ currentStep < Len(traversalFrames) - 1
                   /\ currentStep' = currentStep + 1
                   /\ Displayed' = traversalFrames[currentStep' + 1]
                   /\ isPlaying'
                \/ /\ currentStep = Len(traversalFrames) - 1
                   /\ UNCHANGED <<currentStep, Displayed>>
                   /\ ~isPlaying']_vars
    /\ (isPlaying /\ isTraversalActive)
       ~> (/\ ~isPlaying
           /\ isTraversalActive
           /\ currentStep = Len(traversalFrames) - 1
           /\ Displayed = traversalFrames[Len(traversalFrames)])

(* The animation of a traversal of three nodes has played its eleven *)
(* frames and stopped.                                               *)
C35_Witness ==
    /\ op \in Detailed
    /\ isTraversalActive
    /\ ~isPlaying
    /\ playbackTimerRef = None
    /\ Len(traversalFrames) = 11
    /\ currentStep = 10

(***************************************************************************)
(* C36.  Pressing play/pause while isPlaying is true only pauses: in every *)
(* playback state, the one with the last frame applied and the final timer *)
(* tick still pending included, isPlaying becomes false and currentStep    *)
(* and the displayed frame stay as they are.                               *)
(***************************************************************************)
C36_PauseOnlyPauses ==
    [][(HandlePlayPause /\ isPlaying)
       => /\ ~isPlaying'
          /\ UNCHANGED <<currentStep, Displayed>>]_vars

(***************************************************************************)
(* C37.  A click on Skip to End, where the button is enabled, terminates   *)
(* with the position on the last frame: the loop it starts calls           *)
(* onStepForward once for each frame that lies between the position of the *)
(* click and the last frame, and no more.                                  *)
(***************************************************************************)
C37_SkipToEndTerminates ==
    skipToEnd # None
    => LET loop == skipToEnd[1] IN
       loop.calls <= (loop.totalSteps - 1) - loop.currentStep

(***************************************************************************)
(* C38.  Once playback has reached the last frame of the sequence, the     *)
(* at-end condition of the controls holds: isAtEnd is true, the status     *)
(* line reports 'Traversal Complete', Step Forward and Skip to End are     *)
(* disabled and the progress value is 100%.                                *)
(***************************************************************************)
C38_AtEndReported ==
    (isTraversalActive /\ currentStep = Len(traversalFrames) - 1)
    => LET totalSteps == Len(traversalFrames) IN
       /\ isAtEnd(currentStep, totalSteps)
       /\ status(currentStep, totalSteps, isPlaying) = "Traversal Complete"
       /\ forwardDisabled(currentStep, totalSteps, isPlaying)
       /\ progress(currentStep, totalSteps).n
              = 100 * progress(currentStep, totalSteps).d

(* A step of a handler that runs an operation of the tree: no other step *)
(* changes the record of the last operation or the frame list.           *)
OperationStep == engine' # engine \/ traversalFrames' # traversalFrames

(* The frame list of the animation of the last operation. *)
FramesOfOp ==
    IF op \in Detailed THEN generateTraversalFrames(root, heap, res.steps)
    ELSE generatePathFrames(root, heap, res.path,
             IF op = "search" /\ res.found THEN Some(arg)
             ELSE IF op \in {"findMin", "findMax"} THEN Some(res.value)
             ELSE None)

(***************************************************************************)
(* C39.  An operation started while an animation is in progress supersedes *)
(* it: the frame list is that of the new operation (in every state the     *)
(* list of an active animation is the list of the last operation),         *)
(* currentStep is 0, frame 0 of the new list is displayed, playback is on, *)
(* and the pending timer is the one set for the new list at step 0.  A     *)
(* pending timer always holds the frame list and the step of the present   *)
(* state, so no tick applies a frame of a superseded list or advances from *)
(* a superseded step: a tick keeps the list and, when it moves, moves to   *)
(* the next frame of that list.                                            *)
(***************************************************************************)
C39_Supersedes ==
    /\ [](playbackTimerRef # None
          => playbackTimerRef[1] = [currentStep |-> currentStep,
                                    traversalFrames |-> traversalFrames])
    /\ []((isTraversalActive /\ StartedByOp) => traversalFrames = FramesOfOp)
    /\ [][(isTraversalActive /\ OperationStep /\ StartedByOp')
          => /\ currentStep' = 0
             /\ Displayed' = traversalFrames'[1]
             /\ isPlaying' /\ isTraversalActive'
             /\ playbackTimerRef' = Some([currentStep |-> 0,
                                          traversalFrames |-> traversalFrames'])]_vars
    /\ [][PlaybackTick
          => /\ UNCHANGED traversalFrames
             /\ currentStep' # currentStep
                => /\ currentStep' = currentStep + 1
                   /\ Displayed' = traversalFrames[currentStep' + 1]]_vars

(* The animation of a search on a tree of three nodes, started after the *)
(* animations of the inserts, is playing at step 2 with the timer set    *)
(* for its own list at that step.                                        *)
C39_Witness ==
    /\ op = "search"
    /\ Cardinality(Nodes(heap, root)) = 3
    /\ isTraversalActive
    /\ isPlaying
    /\ currentStep = 2
    /\ Len(traversalFrames) > 3
    /\ playbackTimerRef = Some([currentStep |-> 2,
                                traversalFrames |-> traversalFrames])

(* A search animation at step 0 with its timer pending, on a tree of three *)
(* nodes: the insert animation before it was replaced.                     *)
C39_WitnessStarted ==
    /\ op = "search"
    /\ Cardinality(Nodes(heap, root)) = 3
    /\ isTraversalActive
    /\ isPlaying
    /\ currentStep = 0
    /\ playbackTimerRef = Some([currentStep |-> 0,
                                traversalFrames |-> traversalFrames])

====
